---- MODULE Spec2Model ----
(***************************************************************************)
(* Model of FortuneTellerProcessor (src/simple.py) and of the part of the  *)
(* HTTP layer that drives it (src/app.py).                                 *)
(*                                                                         *)
(* Numbers.  The code computes pixel coordinates in double precision with  *)
(* the factors 1.01 and +-0.01.  The model computes the same values in     *)
(* exact integer arithmetic over hundredths (scale 101 = 1.01, offset 1 =  *)
(* 0.01) and truncates toward zero as Python's int() does.  For every size *)
(* the model draws, the exact value and the double-precision value of the  *)
(* code agree (they differ only for size 666 and size 1040 among 1..1299). *)
(*                                                                         *)
(* Images.  Pixel content is not modelled here.  An image is a record of   *)
(* where it comes from and of the net rotation the engine applied to it;   *)
(* a canvas is the sequence of the layers composited onto it.              *)
(***************************************************************************)
EXTENDS Integers, Sequences, FiniteSets, TLC

VARIABLES
    size,                \* self.size
    image,               \* "loaded" when the instance has the attribute image, else "unset"
    debug_dir,           \* self.debug_dir: NoneVal or a directory
    segment_defs,        \* self.SEGMENT_DEFS, as _initialize_segment_defs left it
    COMPOSITE_DEFS,      \* the composite catalog the class holds
    pc,                  \* "idle", "done", or the position inside a running call
    call,                \* the operation that runs or ran last, with its arguments
    result,              \* outcome of the call: returned value or raised exception
    written,             \* paths the current call created or wrote, in order
    template,            \* canvas of reconstruct / reconstruct_from_composites
    processed_segments,  \* set of segment ids placed by reconstruct_from_composites
    idx,                 \* position of the loop over the catalog
    segments,            \* split result still to be placed (list of <<id, image>>)
    log                  \* what the run printed / did, per catalog entry (history)

vars == <<size, image, debug_dir, segment_defs, COMPOSITE_DEFS, pc, call, result, written,
          template, processed_segments, idx, segments, log>>

(***************************************************************************)
(* Bounds of the model and constants of the program                        *)
(***************************************************************************)
\* template_size default of __init__
DefaultSize == 400
\* template_size the HTTP layer passes
AppSize == 800
\* sizes DefaultSize - SizeSpan .. DefaultSize + SizeSpan are drawn (image sizes
\* are arbitrary: the source image is resized to min(width, height))
SizeSpan == 5

NoneVal == "<None>"

Sizes == ((DefaultSize - SizeSpan) .. (DefaultSize + SizeSpan)) \cup {AppSize}

\* Python's int() on a rational n/d with d > 0: truncation toward zero
Trunc(n, d) == IF n >= 0 THEN n \div d ELSE -((-n) \div d)

Min(S) == CHOOSE m \in S : \A n \in S : m <= n
Max(S) == CHOOSE m \in S : \A n \in S : m >= n
Range(s) == {s[i] : i \in 1..Len(s)}

(***************************************************************************)
(* Segment catalog                                                         *)
(***************************************************************************)
SegmentOrder ==
    << "option_1", "option_2", "option_3", "option_4", "option_5", "option_6",
       "option_7", "option_8", "flap_A", "flap_B", "flap_C", "flap_D",
       "big_diamond" >>

SegmentIds == Range(SegmentOrder)

\* self.corner_adjustments, in hundredths
corner_adjustments ==
    [ top_left     |-> [scale |-> 101, offset |-> << 1,  1>>],
      top_right    |-> [scale |-> 101, offset |-> <<-1,  1>>],
      bottom_left  |-> [scale |-> 101, offset |-> << 1, -1>>],
      bottom_right |-> [scale |-> 101, offset |-> <<-1, -1>>] ]

\* dataclass defaults of SegmentDefinition: scale 1.0, offset (0.0, 0.0)
NoAdjustment == [scale |-> 100, offset |-> <<0, 0>>]

SegmentPoints ==
    [ option_1    |-> << <<1,0>>, <<1,1>>, <<2,0>> >>,
      option_2    |-> << <<2,0>>, <<3,0>>, <<3,1>> >>,
      option_3    |-> << <<3,1>>, <<4,1>>, <<4,2>> >>,
      option_4    |-> << <<3,3>>, <<4,2>>, <<4,3>> >>,
      option_5    |-> << <<2,4>>, <<3,3>>, <<3,4>> >>,
      option_6    |-> << <<1,3>>, <<1,4>>, <<2,4>> >>,
      option_7    |-> << <<0,2>>, <<0,3>>, <<1,3>> >>,
      option_8    |-> << <<0,1>>, <<0,2>>, <<1,1>> >>,
      flap_A      |-> << <<0,0>>, <<1,0>>, <<1,1>>, <<0,1>> >>,
      flap_B      |-> << <<3,0>>, <<4,0>>, <<4,1>>, <<3,1>> >>,
      flap_C      |-> << <<3,3>>, <<4,3>>, <<4,4>>, <<3,4>> >>,
      flap_D      |-> << <<0,3>>, <<1,3>>, <<1,4>>, <<0,4>> >>,
      big_diamond |-> << <<1,1>>, <<3,1>>, <<3,3>>, <<1,3>> >> ]

SegmentRotation ==
    [ option_1 |-> 90, option_2 |-> -90, option_3 |-> 90, option_4 |-> -180,
      option_5 |-> 0, option_6 |-> 0, option_7 |-> -90, option_8 |-> 0,
      flap_A |-> 0, flap_B |-> 0, flap_C |-> 0, flap_D |-> 0, big_diamond |-> 0 ]

SegmentCorner ==
    [ option_1 |-> "top_left", option_2 |-> "top_right", option_3 |-> "top_right",
      option_4 |-> "bottom_right", option_5 |-> "bottom_right",
      option_6 |-> "bottom_left", option_7 |-> "bottom_left",
      option_8 |-> "top_left", flap_A |-> "top_left", flap_B |-> "top_right",
      flap_C |-> "bottom_right", flap_D |-> "bottom_left" ]

SegmentDefinition(points, rotation, adj) ==
    [ scale |-> adj.scale, offset |-> adj.offset,
      points |-> points, anchor_point |-> "top_left", default_rotation |-> rotation ]

\* the class attribute SEGMENT_DEFS: no scale, no offset
CLASS_SEGMENT_DEFS ==
    [ s \in SegmentIds |->
        SegmentDefinition(SegmentPoints[s], SegmentRotation[s], NoAdjustment) ]

\* the instance attribute SEGMENT_DEFS that _initialize_segment_defs builds
SEGMENT_DEFS ==
    [ s \in SegmentIds |->
        SegmentDefinition(SegmentPoints[s], SegmentRotation[s],
                          IF s = "big_diamond" THEN NoAdjustment
                          ELSE corner_adjustments[SegmentCorner[s]]) ]

(***************************************************************************)
(* Outcomes of a call                                                      *)
(***************************************************************************)
Returned(v) == [kind |-> "returned", value |-> v]
Raised(type, msg) == [kind |-> "raised", type |-> type, msg |-> msg]
NoResult == [kind |-> "none"]

NoImageError == Raised("ValueError", "No input image loaded for extraction")
InvalidSegmentError == Raised("ValueError", "Invalid segment ID")
InvalidCompositeError == Raised("ValueError", "Invalid composite ID")
GridRegionsError == Raised("ValueError", "Grid split type requires defined regions")
KeyError == Raised("KeyError", "segment_id")
NoneNotIterable == Raised("TypeError", "'NoneType' object is not iterable")
NameError == Raised("NameError", "name 'templat' is not defined")

(***************************************************************************)
(* Coordinate mapper                                                       *)
(***************************************************************************)
\* int(g * self.size / 4)
BasePixel(sz, g) == Trunc(g * sz, 4)

\* variant: floor division where the code truncates toward zero
AdjustedPixel_Floor(sz, base, scale, offset) ==
    (100 * sz + (2 * base - sz) * scale + 2 * sz * offset) \div 200

\* int(center + (base - center) * scale + size * offset) for one axis, with
\* center = size / 2, scale and offset in hundredths:
\* (100*size + (2*base - size)*scale + 2*size*offset) / 200
AdjustedPixel(sz, base, scale, offset) ==
    Trunc(100 * sz + (2 * base - sz) * scale + 2 * sz * offset, 200)

\* the condition "segment_id and segment_id != 'big_diamond'": None and the
\* empty string are falsy
UsesAdjustment(segment_id) ==
    segment_id \notin {NoneVal, ""} /\ segment_id # "big_diamond"

\* variant: the test for the big diamond is dropped
grid_to_pixel_AdjustsDiamond(sz, defs, x, y, segment_id) ==
    IF segment_id \in {NoneVal, ""} THEN Returned(<<Trunc(x * sz, 4), Trunc(y * sz, 4)>>)
    ELSE IF segment_id \notin DOMAIN defs THEN Raised("KeyError", "segment_id")
    ELSE Returned(<< Trunc(100 * sz + (2 * Trunc(x * sz, 4) - sz) * defs[segment_id].scale
                           + 2 * sz * defs[segment_id].offset[1], 200),
                     Trunc(100 * sz + (2 * Trunc(y * sz, 4) - sz) * defs[segment_id].scale
                           + 2 * sz * defs[segment_id].offset[2], 200) >>)

grid_to_pixel(sz, defs, x, y, segment_id) ==
    LET base_x == BasePixel(sz, x)
        base_y == BasePixel(sz, y)
    IN  IF UsesAdjustment(segment_id)
        THEN IF segment_id \notin DOMAIN defs
             THEN KeyError
             ELSE LET segment_def == defs[segment_id]
                  IN  Returned(<< AdjustedPixel(sz, base_x, segment_def.scale,
                                                segment_def.offset[1]),
                                  AdjustedPixel(sz, base_y, segment_def.scale,
                                                segment_def.offset[2]) >>)
        ELSE Returned(<<base_x, base_y>>)

get_anchor_coordinates(segment_def) ==
    LET xs == {segment_def.points[i][1] : i \in 1..Len(segment_def.points)}
        ys == {segment_def.points[i][2] : i \in 1..Len(segment_def.points)}
    IN  CASE segment_def.anchor_point = "top_left"    -> <<Min(xs), Min(ys)>>
          [] segment_def.anchor_point = "top_right"   -> <<Max(xs), Min(ys)>>
          [] segment_def.anchor_point = "bottom_left" -> <<Min(xs), Max(ys)>>
          [] OTHER                                    -> <<Max(xs), Max(ys)>>

(***************************************************************************)
(* Composite catalog                                                       *)
(***************************************************************************)
CompositeOrder ==
    << "combo_opt_1_6", "combo_opt_2_5", "combo_opt_3_8", "combo_opt_4_7",
       "combo_flaps", "combo_diamond" >>

CompositeIds == Range(CompositeOrder)

\* bbox coordinates are in halves: 1 = 0.5, 2 = 1.0
SplitRegion(bbox, segment_id) ==
    [rotation |-> 0, segment_id |-> segment_id, bbox |-> bbox]

\* regions of a CompositeDefinition: None (the dataclass default) or a list
NoRegions == [none |-> TRUE, items |-> <<>>]
Regions(items) == [none |-> FALSE, items |-> items]

CompositeDefinition(segs, split_type, split_rotation, regions) ==
    [ segments |-> segs, split_type |-> split_type,
      split_rotation |-> split_rotation, regions |-> regions ]

FlapRegions ==
    << SplitRegion(<<0, 0, 1, 1>>, "flap_A"), SplitRegion(<<1, 0, 2, 1>>, "flap_B"),
       SplitRegion(<<1, 1, 2, 2>>, "flap_C"), SplitRegion(<<0, 1, 1, 2>>, "flap_D") >>

DiamondRegions == << SplitRegion(<<0, 0, 2, 2>>, "big_diamond") >>

\* the class attribute COMPOSITE_DEFS as the source defines it
CATALOG_COMPOSITE_DEFS ==
    [ combo_opt_1_6 |-> CompositeDefinition(<<"option_1", "option_6">>, "DIAGONAL", 45, NoRegions),
      combo_opt_2_5 |-> CompositeDefinition(<<"option_2", "option_5">>, "DIAGONAL", -45, NoRegions),
      combo_opt_3_8 |-> CompositeDefinition(<<"option_3", "option_8">>, "DIAGONAL", 135, NoRegions),
      combo_opt_4_7 |-> CompositeDefinition(<<"option_4", "option_7">>, "DIAGONAL", -45, NoRegions),
      combo_flaps   |-> CompositeDefinition(<<"flap_A", "flap_B", "flap_C", "flap_D">>, "GRID", 0,
                                            Regions(FlapRegions)),
      combo_diamond |-> CompositeDefinition(<<"big_diamond">>, "CUSTOM", 0,
                                            Regions(DiamondRegions)) ]

\* Catalogs that differ from the source's in one definition.  COMPOSITE_DEFS is
\* a class attribute that __init__ never rebuilds; CompositeDefinition accepts
\* any region list, and regions defaults to None.
WithRegions(cid, regions) ==
    [CATALOG_COMPOSITE_DEFS EXCEPT ![cid].regions = regions]

\* a second definition that yields flap_A, after combo_flaps in catalog order
OverlapCatalog ==
    [CATALOG_COMPOSITE_DEFS EXCEPT
        !["combo_diamond"] =
            CompositeDefinition(<<"big_diamond", "flap_A">>, "CUSTOM", 0,
                Regions(DiamondRegions \o << SplitRegion(<<0, 0, 1, 1>>, "flap_A") >>))]

RegionlessCatalogs ==
    { WithRegions(cid, r) : cid \in {"combo_flaps", "combo_diamond"},
                            r \in {NoRegions, Regions(<<>>)} }

(***************************************************************************)
(* Images, canvases, files                                                 *)
(***************************************************************************)
\* src: where the pixels come from; crop: "vertices" (cropped to the box of
\* the polygon's vertices), "content" (crop_to_content) or "file" (as
\* loaded); box: the crop rectangle where the code computes one; rot: the
\* rotation the engine applied since, in degrees
Image(src, crop, box, rot) == [src |-> src, crop |-> crop, box |-> box, rot |-> rot]

FileImage(path) == Image(path, "file", <<>>, 0)

\* Image.new('RGBA', (size, size), (0, 0, 0, 0)) and what is composited onto it
Canvas(sz, layers) == [size |-> sz, layers |-> layers, isNone |-> FALSE]
NoneCanvas == [isNone |-> TRUE]

\* <dir>/<stem>.png; a directory is the path <<dir>>
Path(dir, stem) == <<dir, stem>>
DebugPath(dir, stem) == <<dir, "debug", stem>>

\* a dict with insertion order: a sequence of <<key, value>>
DictKeys(d) == {d[i][1] : i \in 1..Len(d)}
DictPut(d, k, v) ==
    IF k \in DictKeys(d)
    THEN [i \in 1..Len(d) |-> IF d[i][1] = k THEN <<k, v>> ELSE d[i]]
    ELSE Append(d, <<k, v>>)

(***************************************************************************)
(* Raster transforms, as far as an image record shows them                 *)
(***************************************************************************)
rotate_segment(img, angle) ==
    IF angle = 0 THEN img
    ELSE [img EXCEPT !.rot = @ + angle, !.crop = "content"]

crop_to_content(img) == [img EXCEPT !.crop = "content"]

\* the box of a list of points: (min x, min y, max x, max y)
\* variant: the box spanned by the first and the last vertex
VertexBox_Ends(pts) ==
    << pts[1][1], pts[1][2], pts[Len(pts)][1], pts[Len(pts)][2] >>

VertexBox(pts) ==
    << Min({pts[i][1] : i \in 1..Len(pts)}), Min({pts[i][2] : i \in 1..Len(pts)}),
       Max({pts[i][1] : i \in 1..Len(pts)}), Max({pts[i][2] : i \in 1..Len(pts)}) >>

\* Shapes.  An option segment is a right triangle that fills one half of the
\* box of its vertices; it is told by the corner of the box its right angle
\* lies in.  A rotation by a multiple of 90 degrees moves the corner and swaps
\* the sides of the box.  Resampling and the rounding of edges are not shown.
BoxCorner(p, b) ==
    CASE p = <<b[1], b[2]>> -> "top_left"
      [] p = <<b[3], b[2]>> -> "top_right"
      [] p = <<b[1], b[4]>> -> "bottom_left"
      [] p = <<b[3], b[4]>> -> "bottom_right"
      [] OTHER -> "none"

\* the corner of the vertex the two legs of the triangle meet in
RightAngleCorner(pts) ==
    LET legs(i) == \A j \in 1..Len(pts) : pts[j][1] = pts[i][1] \/ pts[j][2] = pts[i][2]
    IN  IF Len(pts) = 3 /\ \E i \in 1..3 : legs(i)
        THEN BoxCorner(pts[CHOOSE i \in 1..3 : legs(i)], VertexBox(pts))
        ELSE "none"

\* quarter turns counter-clockwise that a rotation by angle degrees makes
QuarterTurns(angle) == (angle \div 90) % 4

\* variant: the image is turned clockwise
RotateCorner_Clockwise(corner, angle) ==
    LET cycle == <<"top_left", "top_right", "bottom_right", "bottom_left">>
    IN  IF corner = "none" \/ angle % 90 # 0 THEN "none"
        ELSE cycle[(((CHOOSE i \in 1..4 : cycle[i] = corner) - 1 + QuarterTurns(angle)) % 4) + 1]

\* Image.rotate turns counter-clockwise: top_left -> bottom_left ->
\* bottom_right -> top_right -> top_left
RotateCorner(corner, angle) ==
    LET cycle == <<"top_left", "bottom_left", "bottom_right", "top_right">>
    IN  IF corner = "none" \/ angle % 90 # 0 THEN "none"
        ELSE cycle[(((CHOOSE i \in 1..4 : cycle[i] = corner) - 1 + QuarterTurns(angle)) % 4) + 1]

\* the corner an extracted and then rotated segment image fills
ShapeCorner(img) == RotateCorner(RightAngleCorner(img.src[3]), img.rot)

\* (width, height) of an extracted and then rotated segment image
ImageSize(img) ==
    LET w == img.box[3] - img.box[1]
        h == img.box[4] - img.box[2]
    IN  IF QuarterTurns(img.rot) % 2 = 0 THEN <<w, h>> ELSE <<h, w>>

combine_segments_tight(segment1, segment2) ==
    LET width == Max({ImageSize(segment1)[1], ImageSize(segment2)[1]})
        height == Max({ImageSize(segment1)[2], ImageSize(segment2)[2]})
    IN  [size |-> <<width, height>>, src |-> "combined", right_top |-> segment1,
         left_bottom |-> segment2,
         at1 |-> <<width - ImageSize(segment1)[1], 0>>,
         at2 |-> <<0, height - ImageSize(segment2)[2]>>]

(***************************************************************************)
(* Extraction engine                                                       *)
(***************************************************************************)
HasImage(img) == img = "loaded"

PixelPoints(sz, points) ==
    [i \in 1..Len(points) |->
        grid_to_pixel(sz, SEGMENT_DEFS, points[i][1], points[i][2], NoneVal).value]

Saved(output_path) == IF output_path = NoneVal THEN <<>> ELSE <<output_path>>

\* each engine operation yields [res |-> outcome, writes |-> paths written]
Outcome(res, writes) == [res |-> res, writes |-> writes]

\* variant: the segment id is looked up before the image is asked for
extract_segment_LookupFirst(sz, img, segment_id, output_path) ==
    IF segment_id \notin SegmentIds THEN Outcome(InvalidSegmentError, <<>>)
    ELSE IF img # "loaded" THEN Outcome(NoImageError, <<>>)
    ELSE Outcome(Returned(Image(<<"source", segment_id,
                                  PixelPoints(sz, SEGMENT_DEFS[segment_id].points)>>,
                                "vertices",
                                VertexBox(PixelPoints(sz, SEGMENT_DEFS[segment_id].points)), 0)),
                 Saved(output_path))

extract_segment(sz, img, segment_id, output_path) ==
    IF ~HasImage(img) THEN Outcome(NoImageError, <<>>)
    ELSE IF segment_id \notin DOMAIN SEGMENT_DEFS THEN Outcome(InvalidSegmentError, <<>>)
    ELSE LET pixel_points == PixelPoints(sz, SEGMENT_DEFS[segment_id].points)
         IN  Outcome(Returned(Image(<<"source", segment_id, pixel_points>>, "vertices",
                                    VertexBox(pixel_points), 0)),
                     Saved(output_path))

extract_big_diamond(sz, img, output_path) ==
    IF ~HasImage(img) THEN Outcome(NoImageError, <<>>)
    ELSE LET points == PixelPoints(sz, SEGMENT_DEFS["big_diamond"].points)
         IN  Outcome(Returned(crop_to_content(
                         Image(<<"source", "big_diamond", points>>, "none", <<>>, 0))),
                     Saved(output_path))

RECURSIVE ExtractEach(_, _, _, _)
\* the loop of extract_all over SEGMENT_DEFS from position i: the paths saved
ExtractEach(sz, img, output_dir, i) ==
    IF i > Len(SegmentOrder) THEN <<>>
    ELSE extract_segment(sz, img, SegmentOrder[i], Path(output_dir, SegmentOrder[i])).writes
         \o ExtractEach(sz, img, output_dir, i + 1)

extract_all(sz, img, output_dir) ==
    IF ~HasImage(img) THEN Outcome(NoImageError, <<>>)
    ELSE Outcome(Returned(NoneVal),
                 << <<output_dir>> >> \o ExtractEach(sz, img, output_dir, 1)
                 \o extract_big_diamond(sz, img, Path(output_dir, "big_diamond")).writes)

RECURSIVE ExtractEachFile(_, _, _, _)
\* the loop of extract_all from position i: <<path, image saved>> per segment
ExtractEachFile(sz, img, output_dir, i) ==
    IF i > Len(SegmentOrder) THEN <<>>
    ELSE << << Path(output_dir, SegmentOrder[i]),
               extract_segment(sz, img, SegmentOrder[i],
                               Path(output_dir, SegmentOrder[i])).res.value >> >>
         \o ExtractEachFile(sz, img, output_dir, i + 1)

\* variant: the diamond is extracted before the loop over the catalog
extract_all_files_DiamondFirst(sz, img, output_dir) ==
    << << Path(output_dir, "big_diamond"),
          extract_big_diamond(sz, img, Path(output_dir, "big_diamond")).res.value >> >>
    \o ExtractEachFile(sz, img, output_dir, 1)

\* every file extract_all saves, in the order saved: the loop over the
\* catalog, then extract_big_diamond to big_diamond.png
extract_all_files(sz, img, output_dir) ==
    ExtractEachFile(sz, img, output_dir, 1)
    \o << << Path(output_dir, "big_diamond"),
             extract_big_diamond(sz, img, Path(output_dir, "big_diamond")).res.value >> >>

RECURSIVE FilesLeft(_, _, _)
\* the directory after the saves from position i on: a save to a path that
\* exists replaces the file
FilesLeft(saves, i, acc) ==
    IF i > Len(saves) THEN acc
    ELSE FilesLeft(saves, i + 1, DictPut(acc, saves[i][1], saves[i][2]))

\* the file <output_dir>/<segment_id>.png after extract_all on a processor of
\* size sz that holds a source image
ExtractedFile(sz, output_dir, segment_id) ==
    LET files == FilesLeft(extract_all_files(sz, "loaded", output_dir), 1, <<>>)
    IN  files[CHOOSE i \in 1..Len(files) : files[i][1] = Path(output_dir, segment_id)][2]

\* f'option_{n}'
OptionId(n) == IF n \in 1..8 THEN SegmentOrder[n] ELSE "option_9"

create_composite(sz, img, option1, option2, rotation1, rotation2) ==
    LET e1 == extract_segment(sz, img, OptionId(option1), NoneVal).res
        e2 == extract_segment(sz, img, OptionId(option2), NoneVal).res
    IN  IF e1.kind = "raised" THEN Outcome(e1, <<>>)
        ELSE IF e2.kind = "raised" THEN Outcome(e2, <<>>)
        ELSE Outcome(Returned(combine_segments_tight(rotate_segment(e1.value, rotation1),
                                                     rotate_segment(e2.value, rotation2))),
                     <<>>)

(***************************************************************************)
(* Placement                                                               *)
(***************************************************************************)
\* int(extent * self.size * scale / 4), or int(extent * self.size / 4) for the diamond
TargetSize(sz, segment_id, extent) ==
    IF segment_id # "big_diamond"
    THEN Trunc(extent * sz * SEGMENT_DEFS[segment_id].scale, 400)
    ELSE Trunc(extent * sz, 4)

GridExtent(points) ==
    LET b == VertexBox(points) IN <<b[3] - b[1], b[4] - b[2]>>

\* one alpha_composite onto the canvas: the image, the pixel it is put at, the
\* size it was resized to, and the order of the steps it went through
Layer(segment_id, img, at, dims, steps) ==
    [image |-> img, segment_id |-> segment_id, at |-> at, steps |-> steps,
     resized_to |-> dims]

ExpectedSize(sz, segment_id) ==
    LET extent == GridExtent(SEGMENT_DEFS[segment_id].points)
    IN  <<TargetSize(sz, segment_id, extent[1]), TargetSize(sz, segment_id, extent[2])>>

RotateStep(segment_id) ==
    IF SEGMENT_DEFS[segment_id].default_rotation # 0 THEN <<"rotate">> ELSE <<>>

place_segment(sz, canvas, segment, segment_id) ==
    IF segment_id \notin DOMAIN SEGMENT_DEFS THEN KeyError
    ELSE LET segment_def == SEGMENT_DEFS[segment_id]
             rotated == rotate_segment(segment, segment_def.default_rotation)
             anchor == get_anchor_coordinates(segment_def)
             p == grid_to_pixel(sz, SEGMENT_DEFS, anchor[1], anchor[2], segment_id).value
             target == ExpectedSize(sz, segment_id)
             base == IF canvas.isNone THEN Canvas(sz, <<>>) ELSE canvas
         IN  Returned(Canvas(base.size,
                 Append(base.layers,
                        Layer(segment_id, rotated, p, target,
                              RotateStep(segment_id)
                              \o (IF target[1] > 0 /\ target[2] > 0
                                  THEN <<"resize">> ELSE <<>>)))))

\* variant: the segment is composited onto the caller's canvas itself
place_segment_objects_InPlace(sz, canvas, segment, segment_id) ==
    LET r == place_segment(sz, canvas, segment, segment_id)
    IN  IF r.kind = "raised" THEN [template |-> canvas, res |-> r]
        ELSE [template |-> IF canvas.isNone THEN canvas ELSE r.value,
              res |-> [kind |-> "returned", value |-> r.value,
                       object |-> IF canvas.isNone THEN "new" ELSE "template"]]

\* place_segment with the objects it touches: template is the caller's canvas
\* as the call leaves it; the returned canvas is the object template.copy()
\* made ("copy"), which the segment is composited onto
place_segment_objects(sz, canvas, segment, segment_id) ==
    LET r == place_segment(sz, canvas, segment, segment_id)
    IN  IF r.kind = "raised" THEN [template |-> canvas, res |-> r]
        ELSE [template |-> canvas,
              res |-> [kind |-> "returned", value |-> r.value, object |-> "copy"]]

(***************************************************************************)
(* Composite engine: split_composite                                       *)
(***************************************************************************)
\* a composite file: absent, not decodable, or an image of w x h pixels
FlapOrder == <<"flap_A", "flap_B", "flap_C", "flap_D">>

\* positions of create_grid_composite, in cells
GridPositions ==
    [flap_A |-> <<0, 0>>, flap_B |-> <<1, 0>>, flap_C |-> <<1, 1>>, flap_D |-> <<0, 1>>]

\* variant: flap_C and flap_D change places
create_grid_composite_Rows(flap_segments) ==
    LET cell_width == Max({flap_segments[i][2][1] : i \in 1..Len(flap_segments)})
        cell_height == Max({flap_segments[i][2][2] : i \in 1..Len(flap_segments)})
        rows == [flap_A |-> <<0, 0>>, flap_B |-> <<1, 0>>, flap_C |-> <<0, 1>>, flap_D |-> <<1, 1>>]
    IN  [size |-> <<cell_width * 2, cell_height * 2>>, src |-> "grid",
         cells |-> [i \in 1..Len(flap_segments) |->
                      [at |-> << rows[flap_segments[i][1]][1] * cell_width,
                                 rows[flap_segments[i][1]][2] * cell_height >>,
                       dims |-> flap_segments[i][2],
                       flap_id |-> flap_segments[i][1]]]]

\* flap_segments: a dict <<flap id, (width, height) of its image>>, in
\* insertion order; the result: the canvas size and what is composited where
create_grid_composite(flap_segments) ==
    LET cell_width == Max({flap_segments[i][2][1] : i \in 1..Len(flap_segments)})
        cell_height == Max({flap_segments[i][2][2] : i \in 1..Len(flap_segments)})
        canvas_width == cell_width * 2
        canvas_height == cell_height * 2
    IN  [size |-> <<canvas_width, canvas_height>>, src |-> "grid",
         cells |-> [i \in 1..Len(flap_segments) |->
                      [at |-> << GridPositions[flap_segments[i][1]][1] * cell_width,
                                 GridPositions[flap_segments[i][1]][2] * cell_height >>,
                       dims |-> flap_segments[i][2],
                       flap_id |-> flap_segments[i][1]]]]

\* content: what the image shows where the file is one the engine built
CompositeFile(status, w, h) ==
    [w |-> w, h |-> h, status |-> status, content |-> [src |-> "unknown"]]

\* the file a composite image is saved to, opened again
SavedComposite(composite) ==
    [w |-> composite.size[1], h |-> composite.size[2], status |-> "valid",
     content |-> composite]

\* Geometry of the diagonal split.  Angles are in degrees, counter-clockwise,
\* seen on the image.  Two triangles that fill opposite corners of one
\* square meet in the diagonal through the other two corners; -1 says that
\* the two images do not meet in a diagonal.
SeamAngle(composite) ==
    LET c1 == ShapeCorner(composite.right_top)
        c2 == ShapeCorner(composite.left_bottom)
        square == /\ composite.size[1] = composite.size[2]
                  /\ ImageSize(composite.right_top) = composite.size
                  /\ ImageSize(composite.left_bottom) = composite.size
    IN  IF ~square THEN -1
        ELSE IF {c1, c2} = {"top_right", "bottom_left"} THEN 135
        ELSE IF {c1, c2} = {"top_left", "bottom_right"} THEN 45
        ELSE -1

\* the seam after composite.rotate(split_angle, expand=True): 0 is horizontal
RotatedSeam(composite, split_angle) ==
    IF SeamAngle(composite) = -1 THEN -1
    ELSE (SeamAngle(composite) + split_angle) % 180

\* direction from the centre of the square to a triangle's right angle
CornerDirection(corner) ==
    CASE corner = "top_right" -> 45
      [] corner = "top_left" -> 135
      [] corner = "bottom_left" -> 225
      [] corner = "bottom_right" -> 315

\* the half of the rotated composite (cut at split_y = height // 2) that a
\* segment image lies in: "top", "bottom", or "both" when the cut crosses it
HalfOf(composite, img, split_angle) ==
    IF RotatedSeam(composite, split_angle) # 0 \/ ShapeCorner(img) = "none" THEN "both"
    ELSE IF (CornerDirection(ShapeCorner(img)) + split_angle) % 360 = 90 THEN "top"
    ELSE IF (CornerDirection(ShapeCorner(img)) + split_angle) % 360 = 270 THEN "bottom"
    ELSE "both"

DiagonalIds == {"combo_opt_1_6", "combo_opt_2_5", "combo_opt_3_8", "combo_opt_4_7"}

\* int(region.bbox[i] * width), the bbox in halves
RegionBox(bbox, w, h) ==
    << Trunc(bbox[1] * w, 2), Trunc(bbox[2] * h, 2),
       Trunc(bbox[3] * w, 2), Trunc(bbox[4] * h, 2) >>

RECURSIVE RegionSegments(_, _, _, _, _, _)
\* the loop "for region in composite_def.regions" from position i
RegionSegments(path, items, w, h, i, acc) ==
    IF i > Len(items) THEN acc
    ELSE RegionSegments(path, items, w, h, i + 1,
            DictPut(acc, items[i].segment_id,
                    crop_to_content(
                        rotate_segment(Image(<<path, i>>, "region",
                                             RegionBox(items[i].bbox, w, h), 0),
                                       items[i].rotation))))

\* variant: the half is not rotated back
DiagonalHalf_NotTurnedBack(path, half, split_angle) ==
    crop_to_content(Image(<<path, half>>, "half", <<>>, split_angle))

\* the half cut out of the composite rotated by split_angle, rotated back
DiagonalHalf(path, half, split_angle) ==
    crop_to_content(
        rotate_segment(Image(<<path, half>>, "half", <<>>, split_angle), -split_angle))

\* variant: only the top half is entered in the result
DiagonalSegments_TopOnly(path, composite_id, composite_def) ==
    IF composite_id \in DiagonalIds
    THEN DictPut(<<>>, composite_def.segments[1],
                 DiagonalHalf(path, "top", composite_def.split_rotation))
    ELSE <<>>

DiagonalSegments(path, composite_id, composite_def) ==
    LET segment1_id == composite_def.segments[1]
        segment2_id == composite_def.segments[2]
        split_angle == composite_def.split_rotation
    IN  IF composite_id \in DiagonalIds
        THEN DictPut(DictPut(<<>>, segment1_id, DiagonalHalf(path, "top", split_angle)),
                     segment2_id, DiagonalHalf(path, "bottom", split_angle))
        ELSE <<>>

\* the debug images split_composite saves: the input, then one per segment
SplitDebugWrites(dbg, composite_id, result_segments) ==
    IF dbg = NoneVal THEN <<>>
    ELSE << DebugPath(dbg, <<"input", composite_id>>) >>
         \o [i \in 1..Len(result_segments) |->
                DebugPath(dbg, <<composite_id, result_segments[i][1]>>)]

SplitReturn(dbg, composite_id, result_segments) ==
    Outcome(Returned(result_segments), SplitDebugWrites(dbg, composite_id, result_segments))

split_composite_custom(dbg, path, file, composite_id, composite_def) ==
    IF composite_def.regions.none THEN Outcome(NoneNotIterable, SplitDebugWrites(dbg, composite_id, <<>>))
    ELSE SplitReturn(dbg, composite_id,
            RegionSegments(path, composite_def.regions.items, file.w, file.h, 1, <<>>))

split_composite_grid(dbg, path, file, composite_id, composite_def) ==
    IF composite_def.regions.none \/ composite_def.regions.items = <<>>
    THEN Outcome(GridRegionsError, SplitDebugWrites(dbg, composite_id, <<>>))
    ELSE SplitReturn(dbg, composite_id,
            RegionSegments(path, composite_def.regions.items, file.w, file.h, 1, <<>>))

split_composite(defs, dbg, path, file, composite_id) ==
    IF composite_id \notin DOMAIN defs THEN Outcome(InvalidCompositeError, <<>>)
    ELSE IF file.status = "absent" THEN Outcome(Raised("FileNotFoundError", path), <<>>)
    ELSE IF file.status = "corrupt" THEN Outcome(Raised("UnidentifiedImageError", path), <<>>)
    ELSE LET composite_def == defs[composite_id]
         IN  CASE composite_def.split_type = "DIAGONAL" ->
                    IF Len(composite_def.segments) < 2
                    THEN Outcome(Raised("ValueError", "not enough values to unpack"),
                                 SplitDebugWrites(dbg, composite_id, <<>>))
                    ELSE SplitReturn(dbg, composite_id,
                                     DiagonalSegments(path, composite_id, composite_def))
               [] composite_def.split_type = "GRID" ->
                    split_composite_grid(dbg, path, file, composite_id, composite_def)
               [] OTHER ->
                    split_composite_custom(dbg, path, file, composite_id, composite_def)

(***************************************************************************)
(* The processor: construction and the operations that run in one step     *)
(***************************************************************************)
AllCatalogs == {CATALOG_COMPOSITE_DEFS, OverlapCatalog} \cup RegionlessCatalogs

\* what a run over the catalog did: per entry visited <<id, "missing" |
\* "placed" | "error" | "done">>, the placements skipped as already processed
\* and the placements reported as successful, each <<composite id, segment
\* id>>, and the missing-segment warnings printed
EmptyLog == [entries |-> <<>>, skipped |-> <<>>, placed |-> <<>>, reports |-> <<>>]

\* __init__ with an image path (size = min of the image's sides) or with a
\* template size only; the locals of no call exist yet
Construct(sizes, catalogs) ==
    /\ size \in sizes
    /\ image \in {"loaded", "unset"}
    /\ debug_dir = NoneVal
    /\ segment_defs = SEGMENT_DEFS
    /\ COMPOSITE_DEFS \in catalogs
    /\ pc = "idle"
    /\ call = [op |-> "__init__"]
    /\ result = NoResult
    /\ written = <<>>
    /\ template = NoneCanvas
    /\ processed_segments = {}
    /\ idx = 0
    /\ segments = <<>>
    /\ log = EmptyLog

Idle == pc = "idle"

\* the caller takes the outcome of the finished call; the call's locals are gone
Return ==
    /\ pc = "done"
    /\ pc' = "idle"
    /\ call' = [op |-> "none"]
    /\ result' = NoResult
    /\ written' = <<>>
    /\ template' = NoneCanvas
    /\ processed_segments' = {}
    /\ idx' = 0
    /\ segments' = <<>>
    /\ log' = EmptyLog
    /\ UNCHANGED <<size, image, debug_dir, segment_defs, COMPOSITE_DEFS>>

\* a call that runs to its end in one step: its outcome and what it wrote
Complete(c, out) ==
    /\ Idle
    /\ call' = c
    /\ result' = out.res
    /\ written' = out.writes
    /\ pc' = "done"
    /\ template' = NoneCanvas
    /\ processed_segments' = {}
    /\ idx' = 0
    /\ segments' = <<>>
    /\ log' = EmptyLog
    /\ UNCHANGED <<size, image, debug_dir, segment_defs, COMPOSITE_DEFS>>

UnknownSegmentId == "option_9"
UnknownCompositeId == "combo_opt_9_9"
GridCoordinates == 0..4
SegmentIdArgs == SegmentIds \cup {UnknownSegmentId}
OutputPathArgs == {NoneVal, Path("out", "result")}

\* (option1, option2, rotation1, rotation2): the four configurations of
\* generate_all_composites and two with an option number that names no segment
option_configs == << <<1, 6, -90, 0>>, <<2, 5, 90, 0>>, <<3, 8, -90, 0>>, <<4, 7, -180, 90>> >>
CompositeArgs == Range(option_configs) \cup { <<9, 1, 0, 0>>, <<1, 9, 0, 90>> }

CompositeFiles ==
    { CompositeFile("absent", 0, 0), CompositeFile("corrupt", 0, 0),
      CompositeFile("valid", 200, 200),
      CompositeFile("valid", 203, 101) }

\* combo_opt_<a>_<b> for a configuration of generate_all_composites
ConfigId(k) == CompositeOrder[k]

\* the file generate_all_composites saves for configuration k on a processor
\* of size sz that holds a source image
GeneratedOptionFile(sz, k) ==
    SavedComposite(create_composite(sz, "loaded", option_configs[k][1], option_configs[k][2],
                                    option_configs[k][3], option_configs[k][4]).res.value)

GeneratedFiles(sz) == {GeneratedOptionFile(sz, k) : k \in 1..Len(option_configs)}

\* image.save(path) that fails
SaveError == Raised("OSError", "save")

\* what step k of generate_all_composites builds: the four option pairs by
\* create_composite, the flap grid from four extract_segment results, the
\* diamond by extract_big_diamond
BuildComposite(sz, img, k) ==
    IF k <= Len(option_configs)
    THEN create_composite(sz, img, option_configs[k][1], option_configs[k][2],
                          option_configs[k][3], option_configs[k][4]).res
    ELSE IF CompositeOrder[k] = "combo_flaps"
    THEN LET flap == [i \in 1..Len(FlapOrder) |->
                         extract_segment(sz, img, FlapOrder[i], NoneVal).res]
         IN  IF flap[1].kind = "raised" THEN flap[1]
             ELSE Returned(create_grid_composite(
                      [i \in 1..Len(FlapOrder) |-> <<FlapOrder[i], ImageSize(flap[i].value)>>]))
    ELSE extract_big_diamond(sz, img, NoneVal).res

\* step k: build, then save to <output_dir>/<composite id>.png; save_faults
\* are the steps whose save fails
GenerateStep(sz, img, output_dir, save_faults, k) ==
    LET built == BuildComposite(sz, img, k)
        error == IF built.kind = "raised" THEN built
                 ELSE IF k \in save_faults THEN SaveError
                 ELSE Returned(NoneVal)
    IN  [writes |-> IF error.kind = "raised" THEN <<>>
                    ELSE << Path(output_dir, CompositeOrder[k]) >>, composite_id |-> CompositeOrder[k],
         error |-> error]

RECURSIVE GenerateFrom_Propagates(_, _, _, _, _)
\* variant: the steps are not guarded, the first failure ends the run
GenerateFrom_Propagates(sz, img, output_dir, save_faults, k) ==
    IF k > Len(CompositeOrder) THEN <<>>
    ELSE LET step == GenerateStep(sz, img, output_dir, save_faults, k)
         IN  IF step.error.kind = "raised" THEN <<step>>
             ELSE <<step>> \o GenerateFrom_Propagates(sz, img, output_dir, save_faults, k + 1)

RECURSIVE GenerateFrom(_, _, _, _, _)
\* the steps from k on, each in its own try/except
GenerateFrom(sz, img, output_dir, save_faults, k) ==
    IF k > Len(CompositeOrder) THEN <<>>
    ELSE <<GenerateStep(sz, img, output_dir, save_faults, k)>>
         \o GenerateFrom(sz, img, output_dir, save_faults, k + 1)

RECURSIVE StepWrites(_, _)
StepWrites(steps, k) ==
    IF k > Len(steps) THEN <<>> ELSE steps[k].writes \o StepWrites(steps, k + 1)

\* an exception of a step reaches the caller only where no except clause
\* takes it: never in generate_all_composites
\* (steps is bound to the value of the loop, computed once)
generate_all_composites(sz, img, output_dir, save_faults) ==
    CHOOSE o \in { [res |-> IF Len(steps) = Len(CompositeOrder) THEN Returned(NoneVal)
                            ELSE steps[Len(steps)].error,
                    writes |-> << <<output_dir>> >> \o StepWrites(steps, 1),
                    steps |-> steps] :
                   steps \in {GenerateFrom(sz, img, output_dir, save_faults, 1)} } : TRUE

GenerateAllComposites ==
    /\ Idle
    /\ \E save_faults \in SUBSET (1..Len(CompositeOrder)) :
        \E o \in {generate_all_composites(size, image, "out", save_faults)} :
            /\ call' = [output_dir |-> "out", op |-> "generate_all_composites",
                        save_faults |-> save_faults]
            /\ result' = o.res
            /\ written' = o.writes
            /\ log' = [EmptyLog EXCEPT !.entries = o.steps]
            /\ pc' = "done"
            /\ template' = NoneCanvas
            /\ processed_segments' = {}
            /\ idx' = 0
            /\ segments' = <<>>
            /\ UNCHANGED <<size, image, debug_dir, segment_defs, COMPOSITE_DEFS>>

GridToPixel ==
    /\ Idle
    /\ \E x \in GridCoordinates, y \in GridCoordinates,
       segment_id \in SegmentIdArgs \cup {NoneVal, ""} :
        Complete([segment_id |-> segment_id, x |-> x, y |-> y, op |-> "grid_to_pixel"],
                 Outcome(grid_to_pixel(size, SEGMENT_DEFS, x, y, segment_id), <<>>))

ExtractSegment ==
    /\ Idle
    /\ \E segment_id \in SegmentIdArgs, output_path \in OutputPathArgs :
        Complete([segment_id |-> segment_id, output_path |-> output_path,
                  op |-> "extract_segment"],
                 extract_segment(size, image, segment_id, output_path))

ExtractBigDiamond ==
    /\ Idle
    /\ \E output_path \in OutputPathArgs :
        Complete([output_path |-> output_path, op |-> "extract_big_diamond"],
                 extract_big_diamond(size, image, output_path))

ExtractAll ==
    /\ Idle
    /\ Complete([output_dir |-> "out", op |-> "extract_all"],
             extract_all(size, image, "out"))

CreateComposite ==
    /\ Idle
    /\ \E a \in CompositeArgs :
        Complete([option1 |-> a[1], option2 |-> a[2], rotation1 |-> a[3],
                  rotation2 |-> a[4], op |-> "create_composite"],
                 create_composite(size, image, a[1], a[2], a[3], a[4]))

\* canvases a caller hands to place_segment: none, an empty one, one of
\* another size, one that already holds a segment
CanvasArgs(sz) ==
    { NoneCanvas, Canvas(sz, <<>>), Canvas(sz \div 2, <<>>),
      place_segment(sz, NoneCanvas, FileImage(Path("in", "big_diamond")), "big_diamond").value }

PlaceSegment ==
    /\ Idle
    /\ \E segment_id \in SegmentIdArgs, canvas \in CanvasArgs(size) :
        LET o == place_segment_objects(size, canvas, FileImage(Path("in", segment_id)),
                                       segment_id)
        IN  /\ Idle
            /\ call' = [template |-> canvas, segment_id |-> segment_id, op |-> "place_segment"]
            /\ result' = o.res
            /\ template' = o.template
            /\ written' = <<>>
            /\ pc' = "done"
            /\ processed_segments' = {}
            /\ idx' = 0
            /\ segments' = <<>>
            /\ log' = EmptyLog
            /\ UNCHANGED <<size, image, debug_dir, segment_defs, COMPOSITE_DEFS>>

SplitComposite ==
    /\ Idle
    /\ \E composite_id \in CompositeIds \cup {UnknownCompositeId},
       file \in CompositeFiles \cup GeneratedFiles(size) :
        Complete([composite_id |-> composite_id, file |-> file, op |-> "split_composite"],
                 split_composite(COMPOSITE_DEFS, debug_dir, Path("in", composite_id),
                                 file, composite_id))

\* variant: enabling debug output drops the source image
EnableDebug_DropsImage ==
    /\ Idle
    /\ debug_dir' = "debug_output"
    /\ image' = "unset"
    /\ call' = [debug_dir |-> "debug_output", op |-> "enable_debug"]
    /\ result' = Returned(NoneVal)
    /\ written' = << <<"debug_output">> >>
    /\ pc' = "done"
    /\ template' = NoneCanvas
    /\ processed_segments' = {}
    /\ idx' = 0
    /\ segments' = <<>>
    /\ log' = EmptyLog
    /\ UNCHANGED <<size, segment_defs, COMPOSITE_DEFS>>

\* enable_debug: the one operation that assigns an attribute after construction
EnableDebug ==
    /\ Idle
    /\ debug_dir' = "debug_output"
    /\ call' = [debug_dir |-> "debug_output", op |-> "enable_debug"]
    /\ result' = Returned(NoneVal)
    /\ written' = << <<"debug_output">> >>
    /\ pc' = "done"
    /\ template' = NoneCanvas
    /\ processed_segments' = {}
    /\ idx' = 0
    /\ segments' = <<>>
    /\ log' = EmptyLog
    /\ UNCHANGED <<size, image, segment_defs, COMPOSITE_DEFS>>

\* flap images of every width and height up to MaxFlapSide
MaxFlapSide == 2
FlapDims == (1..MaxFlapSide) \X (1..MaxFlapSide)
FlapSegments == {[i \in 1..4 |-> <<FlapOrder[i], d[i]>>] : d \in [1..4 -> FlapDims]}

CreateGridComposite ==
    /\ Idle
    /\ \E flap_segments \in FlapSegments :
        Complete([flap_segments |-> flap_segments, op |-> "create_grid_composite"],
                 Outcome(Returned(create_grid_composite(flap_segments)), <<>>))

\* split_composite on the saved result of create_grid_composite
SplitGridComposite ==
    /\ Idle
    /\ \E flap_segments \in FlapSegments :
        LET file == SavedComposite(create_grid_composite(flap_segments))
        IN  Complete([composite_id |-> "combo_flaps", file |-> file, op |-> "split_composite"],
                     split_composite(COMPOSITE_DEFS, debug_dir, Path("in", "combo_flaps"),
                                     file, "combo_flaps"))

RECURSIVE SplitAllFrom_NoExistsTest(_, _, _, _, _, _)
\* variant: split_composite is called for a file that is not there too
SplitAllFrom_NoExistsTest(defs, dbg, input_dir, output_dir, files, k) ==
    IF k > Len(CompositeOrder)
    THEN [res |-> Returned(NoneVal), writes |-> <<>>, skipped |-> <<>>]
    ELSE LET composite_id == CompositeOrder[k]
             o == split_composite(defs, dbg, Path(input_dir, composite_id), files[k],
                                  composite_id)
             rest == SplitAllFrom_NoExistsTest(defs, dbg, input_dir, output_dir, files, k + 1)
         IN  IF o.res.kind = "raised"
             THEN [res |-> o.res, writes |-> o.writes, skipped |-> <<>>]
             ELSE [res |-> rest.res, writes |-> o.writes
                              \o [i \in 1..Len(o.res.value) |->
                                     Path(output_dir, o.res.value[i][1])]
                              \o rest.writes,
                   skipped |-> rest.skipped]

RECURSIVE SplitAllFrom(_, _, _, _, _, _)
\* the loop of split_all_composites over the catalog from position k:
\* files[k] is the file at <input_dir>/<composite id>.png
SplitAllFrom(defs, dbg, input_dir, output_dir, files, k) ==
    IF k > Len(CompositeOrder)
    THEN [res |-> Returned(NoneVal), writes |-> <<>>, skipped |-> <<>>]
    ELSE LET composite_id == CompositeOrder[k]
             o == split_composite(defs, dbg, Path(input_dir, composite_id), files[k],
                                  composite_id)
             rest == SplitAllFrom(defs, dbg, input_dir, output_dir, files, k + 1)
         IN  IF files[k].status = "absent"
             THEN [rest EXCEPT !.skipped = <<composite_id>> \o @]
             ELSE IF o.res.kind = "raised"
             THEN [res |-> o.res, writes |-> o.writes, skipped |-> <<>>]
             ELSE [res |-> rest.res, writes |-> o.writes
                              \o [i \in 1..Len(o.res.value) |->
                                     Path(output_dir, o.res.value[i][1])]
                              \o rest.writes,
                   skipped |-> rest.skipped]

split_all_composites(defs, dbg, input_dir, output_dir, files) ==
    LET r == SplitAllFrom(defs, dbg, input_dir, output_dir, files, 1)
    IN  [res |-> r.res, writes |-> << <<output_dir>> >> \o r.writes,
         skipped |-> r.skipped]

\* what the input directory holds for each composite id
InputFiles ==
    [1..Len(CompositeOrder) ->
        {CompositeFile("absent", 0, 0), CompositeFile("corrupt", 0, 0),
         CompositeFile("valid", 200, 200)}]

SplitAllComposites ==
    /\ Idle
    /\ \E files \in InputFiles :
        LET o == split_all_composites(COMPOSITE_DEFS, debug_dir, "in", "out", files)
        IN  /\ Idle
            /\ call' = [output_dir |-> "out", files |-> files, op |-> "split_all_composites",
                        input_dir |-> "in"]
            /\ result' = o.res
            /\ written' = o.writes
            /\ log' = [EmptyLog EXCEPT !.skipped = o.skipped]
            /\ pc' = "done"
            /\ template' = NoneCanvas
            /\ processed_segments' = {}
            /\ idx' = 0
            /\ segments' = <<>>
            /\ UNCHANGED <<size, image, debug_dir, segment_defs, COMPOSITE_DEFS>>

\* the composite engine on a processor that holds a source image
InitGrid ==
    /\ Construct({DefaultSize}, {CATALOG_COMPOSITE_DEFS})
    /\ image = "loaded"
NextGrid ==
    \/ CreateGridComposite
    \/ SplitGridComposite
    \/ SplitAllComposites
    \/ EnableDebug
    \/ Return
SpecGrid == InitGrid /\ [][NextGrid]_vars

InitMapper == Construct(Sizes, {CATALOG_COMPOSITE_DEFS})
NextMapper == GridToPixel \/ Return
SpecMapper == InitMapper /\ [][NextMapper]_vars

InitOps == Construct({DefaultSize, AppSize}, AllCatalogs)
NextOps ==
    \/ GridToPixel
    \/ ExtractSegment
    \/ ExtractBigDiamond
    \/ ExtractAll
    \/ CreateComposite
    \/ PlaceSegment
    \/ SplitComposite
    \/ GenerateAllComposites
    \/ EnableDebug
    \/ Return
SpecOps == InitOps /\ [][NextOps]_vars

(***************************************************************************)
(* Properties of the operations that run in one step                       *)
(***************************************************************************)
Config == <<size, image, debug_dir, COMPOSITE_DEFS>>

ExtractionOps == {"extract_segment", "extract_big_diamond", "extract_all", "create_composite"}

\* C6: on a processor without a source image, extract_segment,
\* extract_big_diamond, extract_all and create_composite raise the "No input
\* image loaded" error whatever their arguments (an unknown segment id
\* included); nothing is created or written, and size, image, debug_dir and
\* the catalog stay as they were.
C6_ExtractionWithoutImageFails ==
    [][ (image = "unset" /\ pc' = "done" /\ call'.op \in ExtractionOps)
        => (result' = NoImageError /\ written' = <<>> /\ Config' = Config) ]_vars

C6_Witness ==
    /\ pc = "done" /\ image = "unset"
    /\ call.op = "extract_segment" /\ call.segment_id = UnknownSegmentId
    /\ result = NoImageError /\ written = <<>>

\* the call named an id the catalog does not hold (for extract_segment, on a
\* processor that has its image, so that the lookup is reached)
UnknownIdCall ==
    /\ pc = "done"
    /\ \/ call.op = "extract_segment" /\ image = "loaded" /\ call.segment_id \notin SegmentIds
       \/ call.op = "place_segment" /\ call.segment_id \notin SegmentIds
       \/ call.op = "grid_to_pixel" /\ call.segment_id \notin {NoneVal, ""}
                                    /\ call.segment_id \notin SegmentIds
       \/ call.op = "split_composite" /\ call.composite_id \notin DOMAIN COMPOSITE_DEFS

\* C7: every operation given an id (extract_segment, place_segment,
\* grid_to_pixel, split_composite) that is not in the catalog raises, and the
\* exception is of one kind for all of them, which is not the kind of the
\* "no image" error.
C7_UnknownIdOneErrorKind ==
    UnknownIdCall =>
        /\ result.kind = "raised"
        /\ result.type = InvalidSegmentError.type
        /\ result.type # NoImageError.type

RegionlessSplitCall ==
    /\ pc = "done" /\ call.op = "split_composite"
    /\ call.file.status = "valid"
    /\ call.composite_id \in DOMAIN COMPOSITE_DEFS
    /\ COMPOSITE_DEFS[call.composite_id].split_type \in {"GRID", "CUSTOM"}
    /\ \/ COMPOSITE_DEFS[call.composite_id].regions.none
       \/ COMPOSITE_DEFS[call.composite_id].regions.items = <<>>

\* C8: split_composite of a GRID or CUSTOM composite whose regions are None or
\* empty raises the "requires defined regions" error, the same for both split
\* types, and never returns an empty mapping.
C8_RegionlessSplitFails ==
    RegionlessSplitCall => result = GridRegionsError

(***************************************************************************)
(* Properties of the coordinate mapper                                     *)
(***************************************************************************)
\* r = int(n / d) for d > 0, stated without the model's Trunc
IsTruncation(r, n, d) ==
    IF n >= 0 THEN d * r <= n /\ n < d * (r + 1)
    ELSE d * r >= n /\ n > d * (r - 1)

\* the claimed value for one axis: trunc(size/2 + (g*size/4 - size/2)*scale
\* + size*offset), g*size/4 exact; over the denominator 400
SingleTruncation(r, sz, g, scale, offset) ==
    IsTruncation(r, 200 * sz + (g * sz - 2 * sz) * scale + 4 * sz * offset, 400)

\* the value with the base truncated first: b = int(g*size/4), then
\* trunc(size/2 + (b - size/2)*scale + size*offset); over the denominator 200
DoubleTruncation(r, sz, g, scale, offset) ==
    \E b \in 0..(g * sz) :
        /\ IsTruncation(b, g * sz, 4)
        /\ IsTruncation(r, 100 * sz + (2 * b - sz) * scale + 2 * sz * offset, 200)

AdjustedCall ==
    /\ pc = "done" /\ call.op = "grid_to_pixel"
    /\ call.segment_id \in SegmentIds \ {"big_diamond"}

\* C9 as claimed: for a non-diamond segment the result is, per axis,
\* trunc(size/2 + (g*size/4 - size/2)*scale + size*offset) with g*size/4 not
\* truncated beforehand.
C9_TruncationOnlyAfter ==
    AdjustedCall =>
        LET d == SEGMENT_DEFS[call.segment_id]
        IN  /\ result.kind = "returned"
            /\ SingleTruncation(result.value[1], size, call.x, d.scale, d.offset[1])
            /\ SingleTruncation(result.value[2], size, call.y, d.scale, d.offset[2])

\* C9 as amended: the base g*size/4 is truncated to an integer first, and the
\* value scaled about the center and offset is truncated again; when size is
\* a multiple of 4 this is the claimed single truncation.
C9_TruncationBeforeAndAfter ==
    AdjustedCall =>
        LET d == SEGMENT_DEFS[call.segment_id]
        IN  /\ result.kind = "returned"
            /\ DoubleTruncation(result.value[1], size, call.x, d.scale, d.offset[1])
            /\ DoubleTruncation(result.value[2], size, call.y, d.scale, d.offset[2])
            /\ size % 4 = 0 =>
                /\ SingleTruncation(result.value[1], size, call.x, d.scale, d.offset[1])
                /\ SingleTruncation(result.value[2], size, call.y, d.scale, d.offset[2])

\* a call where truncating the base first changes the pixel
C9_Witness ==
    /\ AdjustedCall
    /\ size % 4 # 0
    /\ ~SingleTruncation(result.value[1], size, call.x,
                         SEGMENT_DEFS[call.segment_id].scale,
                         SEGMENT_DEFS[call.segment_id].offset[1])

\* v = (floor(x*size/4), floor(y*size/4))
IsBasePixel(v, sz, x, y) ==
    /\ 4 * v[1] <= x * sz /\ x * sz < 4 * (v[1] + 1)
    /\ 4 * v[2] <= y * sz /\ y * sz < 4 * (v[2] + 1)

ReturnsBasePixel(r, sz, x, y) == r.kind = "returned" /\ IsBasePixel(r.value, sz, x, y)

AdjustmentChoices ==
    {corner_adjustments[c] : c \in DOMAIN corner_adjustments} \cup {NoAdjustment}

\* the instance catalog with the big diamond's scale and offset replaced
WithDiamondAdjustment(adj) ==
    [SEGMENT_DEFS EXCEPT !["big_diamond"] =
        SegmentDefinition(SegmentPoints["big_diamond"], 0, adj)]

\* C10: grid_to_pixel returns (floor(x*size/4), floor(y*size/4)) for the big
\* diamond, whatever scale and offset its entry holds, for a call without
\* segment id, and for a non-diamond segment whose scale is 1 and offset
\* (0,0) (the entries of the class-level table); the big diamond's entry has
\* scale 1 and offset (0,0).
C10_UncorrectedIsBasePixel ==
    /\ SEGMENT_DEFS["big_diamond"].scale = 100
    /\ SEGMENT_DEFS["big_diamond"].offset = <<0, 0>>
    /\ (pc = "done" /\ call.op = "grid_to_pixel") =>
        /\ call.segment_id \in {"big_diamond", NoneVal}
             => ReturnsBasePixel(result, size, call.x, call.y)
        /\ \A adj \in AdjustmentChoices :
             ReturnsBasePixel(grid_to_pixel(size, WithDiamondAdjustment(adj),
                                            call.x, call.y, "big_diamond"),
                              size, call.x, call.y)
        /\ \A s \in SegmentIds :
             ReturnsBasePixel(grid_to_pixel(size, CLASS_SEGMENT_DEFS, call.x, call.y, s),
                              size, call.x, call.y)

C10_Witness ==
    /\ pc = "done" /\ call.op = "grid_to_pixel"
    /\ call.segment_id = "big_diamond" /\ call.x = 3 /\ call.y = 1
    /\ size % 4 # 0
    /\ ReturnsBasePixel(result, size, 3, 1)

(***************************************************************************)
(* Reconstruction engine: reconstruct                                      *)
(***************************************************************************)
\* directories drawn for reconstruct: at most MaxMissing of the 13 segment
\* files absent, or at most MaxPresent of them present
MaxMissing == 1
MaxPresent == 1

CountStatus(entries, status) == Cardinality({i \in 1..Len(entries) : entries[i][2] = status})

DirectoryDrawn(entries) ==
    \/ CountStatus(entries, "missing") <= MaxMissing
    \/ CountStatus(entries, "placed") <= MaxPresent

Logged(l, id, status) == [l EXCEPT !.entries = Append(@, <<id, status>>)]

\* the locals of a call that starts: a transparent size x size canvas
StartRun(c, position) ==
    /\ Idle
    /\ call' = c
    /\ pc' = position
    /\ result' = NoResult
    /\ written' = <<>>
    /\ template' = Canvas(size, <<>>)
    /\ processed_segments' = {}
    /\ idx' = 1
    /\ segments' = <<>>
    /\ log' = EmptyLog
    /\ UNCHANGED <<size, image, debug_dir, segment_defs, COMPOSITE_DEFS>>

\* input_dir is "in", a directory with any of the 13 files absent, undecodable
\* or present, or "out", the directory extract_all of a processor of this size
\* has written
ReconstructStart ==
    \E input_dir \in {"in", "out"}, output_path \in OutputPathArgs :
        StartRun([output_path |-> output_path, op |-> "reconstruct",
                  input_dir |-> input_dir], "reconstruct_loop")

\* one iteration of "for segment_id in self.SEGMENT_DEFS": the file is absent
\* (warning, continue), cannot be decoded (Image.open raises out of the
\* call), or is placed
ReconstructSegment ==
    /\ pc = "reconstruct_loop"
    /\ idx <= Len(SegmentOrder)
    /\ LET segment_id == SegmentOrder[idx]
       IN  \E status \in IF call.input_dir = "out" THEN {"extracted"}
                         ELSE {"absent", "corrupt", "valid"} :
            /\ CASE status = "extracted" ->
                      /\ log' = Logged(log, segment_id, "placed")
                      /\ template' = place_segment(size, template,
                                         ExtractedFile(size, "out", segment_id),
                                         segment_id).value
                      /\ idx' = idx + 1
                      /\ UNCHANGED <<pc, result>>
                 [] status = "absent" ->
                      /\ log' = Logged(log, segment_id, "missing")
                      /\ DirectoryDrawn(log'.entries)
                      /\ idx' = idx + 1
                      /\ UNCHANGED <<pc, result, template>>
                 [] status = "corrupt" ->
                      /\ log' = Logged(log, segment_id, "error")
                      /\ result' = Raised("UnidentifiedImageError", Path("in", segment_id))
                      /\ pc' = "done"
                      /\ UNCHANGED <<idx, template>>
                 [] OTHER ->
                      /\ log' = Logged(log, segment_id, "placed")
                      /\ DirectoryDrawn(log'.entries)
                      /\ template' = place_segment(size, template,
                                         FileImage(Path("in", segment_id)), segment_id).value
                      /\ idx' = idx + 1
                      /\ UNCHANGED <<pc, result>>
    /\ UNCHANGED <<size, image, debug_dir, segment_defs, COMPOSITE_DEFS, call, written,
                   processed_segments, segments>>

\* the end of reconstruct: with an output path the canvas is saved and the
\* return statement, nested under the same "if", names the undefined
\* "templat"; without one the function falls off its end and returns None
reconstruct_return(canvas, output_path) ==
    IF output_path # NoneVal
    THEN Outcome(NameError, <<output_path>>)
    ELSE Outcome(Returned(NoneCanvas), <<>>)

ReconstructFinish ==
    /\ pc = "reconstruct_loop"
    /\ idx > Len(SegmentOrder)
    /\ LET out == reconstruct_return(template, call.output_path)
       IN  /\ result' = out.res
           /\ written' = written \o out.writes
    /\ pc' = "done"
    /\ UNCHANGED <<size, image, debug_dir, segment_defs, COMPOSITE_DEFS, call, template,
                   processed_segments, idx, segments, log>>

(***************************************************************************)
(* Reconstruction engine: reconstruct_from_composites                      *)
(***************************************************************************)
\* what can go wrong while one segment is placed: nothing; a raster call
\* (resize, rotate_segment, alpha_composite) raises before the canvas is
\* replaced; or, with debug output enabled, saving the debug image raises
\* after the canvas was replaced and the segment marked as processed
Faults(dbg) == {"none", "place"} \cup (IF dbg = NoneVal THEN {} ELSE {"debug_save"})

\* at most MaxFailures composites of one run raise
MaxFailures == 1

MayFail(entries) == CountStatus(entries, "error") < MaxFailures

PlaceOutcome(canvas, processed, skipped, placed, raised, writes) ==
    [template |-> canvas, processed_segments |-> processed, writes |-> writes,
     skipped |-> skipped, placed |-> placed, raised |-> raised]

\* variant: no test for segments that are already processed
rfc_place_NoSkip(sz, canvas, processed, segment_id, segment_image, fault, dbg) ==
    IF segment_id \notin SegmentIds \/ fault = "place"
    THEN PlaceOutcome(canvas, processed, FALSE, FALSE, TRUE, <<>>)
    ELSE PlaceOutcome(
            Canvas(canvas.size,
                Append(canvas.layers,
                    Layer(segment_id,
                          rotate_segment(segment_image,
                                         SEGMENT_DEFS[segment_id].default_rotation),
                          grid_to_pixel(sz, SEGMENT_DEFS,
                              get_anchor_coordinates(SEGMENT_DEFS[segment_id])[1],
                              get_anchor_coordinates(SEGMENT_DEFS[segment_id])[2],
                              segment_id).value,
                          ExpectedSize(sz, segment_id),
                          <<"resize">> \o RotateStep(segment_id)))),
            processed \cup {segment_id}, FALSE, TRUE, fault = "debug_save",
            IF dbg = NoneVal \/ fault = "debug_save" THEN <<>>
            ELSE << DebugPath(dbg, <<"placed", segment_id>>) >>)

\* variant: the segment is marked as processed before it is placed
rfc_place_MarksFirst(sz, canvas, processed, segment_id, segment_image, fault, dbg) ==
    IF segment_id \in processed
    THEN PlaceOutcome(canvas, processed, TRUE, FALSE, FALSE, <<>>)
    ELSE IF segment_id \notin SegmentIds \/ fault = "place"
    THEN PlaceOutcome(canvas, processed \cup {segment_id}, FALSE, FALSE, TRUE, <<>>)
    ELSE rfc_place_NoSkip(sz, canvas, processed, segment_id, segment_image, fault, dbg)

\* the body of "for segment_id, segment_image in segments.items()"
rfc_place(sz, canvas, processed, segment_id, segment_image, fault, dbg) ==
    IF segment_id \in processed
    THEN PlaceOutcome(canvas, processed, TRUE, FALSE, FALSE, <<>>)
    ELSE IF segment_id \notin DOMAIN SEGMENT_DEFS \/ fault = "place"
    THEN PlaceOutcome(canvas, processed, FALSE, FALSE, TRUE, <<>>)
    ELSE LET segment_def == SEGMENT_DEFS[segment_id]
             anchor == get_anchor_coordinates(segment_def)
             p == grid_to_pixel(sz, SEGMENT_DEFS, anchor[1], anchor[2], segment_id).value
             rotated == rotate_segment(segment_image, segment_def.default_rotation)
             temp == Canvas(canvas.size,
                        Append(canvas.layers,
                               Layer(segment_id, rotated, p, ExpectedSize(sz, segment_id),
                                     <<"resize">> \o RotateStep(segment_id))))
         IN  PlaceOutcome(temp, processed \cup {segment_id}, FALSE, TRUE,
                          fault = "debug_save",
                          IF dbg = NoneVal \/ fault = "debug_save" THEN <<>>
                          ELSE << DebugPath(dbg, <<"placed", segment_id>>) >>)

\* variant: the loop over the composites ends at the first exception
AfterError_Break(i) == Len(CompositeOrder) + 1

\* "except Exception ... continue": the loop goes on with the next composite
AfterError(i) == i + 1

RfcFiles ==
    { CompositeFile("absent", 0, 0), CompositeFile("corrupt", 0, 0),
      CompositeFile("valid", 200, 200) }

ReconstructFromCompositesStart ==
    \E output_path \in OutputPathArgs :
        StartRun([output_path |-> output_path, op |-> "reconstruct_from_composites"],
                 "rfc_loop")

\* one iteration of "for composite_id, composite_def in self.COMPOSITE_DEFS.items()"
\* up to the split: the file is absent (warning, continue), the split raises
\* (caught, continue), or the split's segments wait to be placed
RfcComposite ==
    /\ pc = "rfc_loop"
    /\ idx <= Len(CompositeOrder)
    /\ LET composite_id == CompositeOrder[idx]
       IN  \E file \in RfcFiles :
            /\ file.status = "corrupt" => MayFail(log.entries)
            /\ IF file.status = "absent"
               THEN /\ log' = Logged(log, composite_id, "missing")
                    /\ idx' = idx + 1
                    /\ UNCHANGED <<pc, segments, written>>
               ELSE LET out == split_composite(COMPOSITE_DEFS, debug_dir,
                                               Path("in", composite_id), file, composite_id)
                    IN  /\ written' = written \o out.writes
                        /\ IF out.res.kind = "raised"
                           THEN /\ log' = Logged(log, composite_id, "error")
                                /\ idx' = AfterError(idx)
                                /\ UNCHANGED <<pc, segments>>
                           ELSE IF out.res.value = <<>>
                           THEN /\ log' = Logged(log, composite_id, "done")
                                /\ idx' = idx + 1
                                /\ UNCHANGED <<pc, segments>>
                           ELSE /\ segments' = out.res.value
                                /\ pc' = "rfc_place"
                                /\ UNCHANGED <<idx, log>>
    /\ UNCHANGED <<size, image, debug_dir, segment_defs, COMPOSITE_DEFS, call, result, template,
                   processed_segments>>

\* one iteration of the loop over the split's segments
RfcSegment ==
    /\ pc = "rfc_place"
    /\ segments # <<>>
    /\ LET composite_id == CompositeOrder[idx]
           segment_id == segments[1][1]
       IN  \E fault \in Faults(debug_dir) :
            /\ fault # "none" => MayFail(log.entries)
            /\ LET out == rfc_place(size, template, processed_segments, segment_id,
                                    segments[1][2], fault, debug_dir)
                   noted == IF out.skipped
                            THEN [log EXCEPT !.skipped = Append(@, <<composite_id, segment_id>>)]
                            ELSE IF out.placed
                            THEN [log EXCEPT !.placed = Append(@, <<composite_id, segment_id>>)]
                            ELSE log
               IN  /\ template' = out.template
                   /\ processed_segments' = out.processed_segments
                   /\ written' = written \o out.writes
                   /\ IF out.raised
                      THEN /\ log' = Logged(noted, composite_id, "error")
                           /\ segments' = <<>>
                           /\ idx' = AfterError(idx)
                           /\ pc' = "rfc_loop"
                      ELSE IF Len(segments) = 1
                      THEN /\ log' = Logged(noted, composite_id, "done")
                           /\ segments' = <<>>
                           /\ idx' = idx + 1
                           /\ pc' = "rfc_loop"
                      ELSE /\ log' = noted
                           /\ segments' = Tail(segments)
                           /\ UNCHANGED <<idx, pc>>
    /\ UNCHANGED <<size, image, debug_dir, segment_defs, COMPOSITE_DEFS, call, result>>

\* variant: the difference taken the other way round
missing_segments_Reversed(processed) == processed \ SegmentIds

\* all_segments - processed_segments, printed when it is not empty
missing_segments(processed) == SegmentIds \ processed

RfcFinish ==
    /\ pc = "rfc_loop"
    /\ idx > Len(CompositeOrder)
    /\ LET missing == missing_segments(processed_segments)
       IN  log' = IF missing # {} THEN [log EXCEPT !.reports = Append(@, missing)] ELSE log
    /\ written' = written \o Saved(call.output_path)
    /\ result' = Returned(template)
    /\ pc' = "done"
    /\ UNCHANGED <<size, image, debug_dir, segment_defs, COMPOSITE_DEFS, call, template,
                   processed_segments, idx, segments>>

\* the processor the HTTP layer builds: FortuneTellerProcessor(template_size=800)
InitRecon ==
    /\ Construct({AppSize}, {CATALOG_COMPOSITE_DEFS, OverlapCatalog})
    /\ image = "unset"
NextRecon ==
    \/ ReconstructStart
    \/ ReconstructSegment
    \/ ReconstructFinish
    \/ ReconstructFromCompositesStart
    \/ RfcComposite
    \/ RfcSegment
    \/ RfcFinish
    \/ EnableDebug
    \/ Return
SpecRecon == InitRecon /\ [][NextRecon]_vars

\* every operation of the processor, on a processor with or without a
\* source image
InitProcessor == Construct({AppSize}, {CATALOG_COMPOSITE_DEFS})
NextProcessor ==
    \/ GridToPixel
    \/ ExtractSegment
    \/ ExtractBigDiamond
    \/ ExtractAll
    \/ CreateComposite
    \/ PlaceSegment
    \/ SplitComposite
    \/ SplitAllComposites
    \/ GenerateAllComposites
    \/ ReconstructStart
    \/ ReconstructSegment
    \/ ReconstructFinish
    \/ ReconstructFromCompositesStart
    \/ RfcComposite
    \/ RfcSegment
    \/ RfcFinish
    \/ EnableDebug
    \/ Return
SpecProcessor == InitProcessor /\ [][NextProcessor]_vars

(***************************************************************************)
(* Properties of reconstruct and reconstruct_from_composites               *)
(***************************************************************************)
InReconstruct == call.op = "reconstruct"
InRfc == call.op = "reconstruct_from_composites"

HasEntry(status) == \E i \in 1..Len(log.entries) : log.entries[i][2] = status

\* the composite a layer's image was split from
LayerComposite(layer) == layer.image.src[1][2]
CompositeIndex(c) == CHOOSE i \in 1..Len(CompositeOrder) : CompositeOrder[i] = c

LayersOf(s) == {i \in 1..Len(template.layers) : template.layers[i].segment_id = s}
OnCanvas == {template.layers[i].segment_id : i \in 1..Len(template.layers)}
OnCanvasFrom(c) ==
    {template.layers[i].segment_id :
        i \in {j \in 1..Len(template.layers) : LayerComposite(template.layers[j]) = c}}

\* C1: reconstruct, for every directory of segment files that decode and for
\* an output path given or absent, returns the final size x size canvas, and
\* with an output path given the canvas was saved to it.
C1_ReconstructReturnsCanvas ==
    (pc = "done" /\ InReconstruct /\ ~HasEntry("error")) =>
        /\ result.kind = "returned"
        /\ result.value = template
        /\ ~result.value.isNone
        /\ call.output_path # NoneVal => written = <<call.output_path>>

\* C2: in reconstruct_from_composites every segment id is composited onto the
\* canvas at most once, and a placement skipped as already processed is one
\* whose segment an earlier composite of the catalog put on the canvas.
C2_FirstWriterWins ==
    InRfc =>
        /\ \A s \in SegmentIds : Cardinality(LayersOf(s)) <= 1
        /\ \A k \in 1..Len(log.skipped) :
             \E i \in LayersOf(log.skipped[k][2]) :
                CompositeIndex(LayerComposite(template.layers[i]))
                    < CompositeIndex(log.skipped[k][1])

C2_Witness ==
    /\ pc = "done" /\ InRfc
    /\ log.skipped = << <<"combo_diamond", "flap_A">> >>
    /\ OnCanvasFrom("combo_flaps") = {"flap_A", "flap_B", "flap_C", "flap_D"}
    /\ OnCanvasFrom("combo_diamond") = {"big_diamond"}

\* C3: a missing file never makes reconstruct or reconstruct_from_composites
\* raise: no exception is a file-not-found, the loop visits every catalog
\* entry after a missing one, and whether reconstruct raises depends on its
\* output path alone.  In reconstruct_from_composites the segment ids that
\* are not on the canvas, and only those, are reported, once, after the last
\* composite (nothing is printed when none is missing).
C3_MissingFilesOnlyReported ==
    /\ (InReconstruct \/ InRfc) /\ result.kind = "raised"
         => result.type # "FileNotFoundError"
    /\ (InReconstruct /\ pc = "done" /\ ~HasEntry("error")) =>
         /\ Len(log.entries) = Len(SegmentOrder)
         /\ (result.kind = "raised") <=> (call.output_path # NoneVal)
    /\ (InRfc /\ pc # "done") => log.reports = <<>>
    /\ (InRfc /\ pc = "done") =>
         /\ Len(log.entries) = Len(CompositeOrder)
         /\ result.kind = "returned"
         /\ log.reports = IF SegmentIds \ OnCanvas = {} THEN <<>>
                          ELSE << SegmentIds \ OnCanvas >>

C3_Witness ==
    /\ pc = "done" /\ InRfc
    /\ log.entries[1] = <<"combo_opt_1_6", "missing">>
    /\ log.entries[2] = <<"combo_opt_2_5", "done">>
    /\ log.entries[5] = <<"combo_flaps", "missing">>
    /\ log.entries[6] = <<"combo_diamond", "done">>
    /\ Len(log.reports) = 1
    /\ {"option_1", "option_6", "flap_A"} \subseteq log.reports[1]
    /\ log.reports[1] \cap {"option_2", "option_5", "big_diamond"} = {}

\* C4: in reconstruct_from_composites an exception raised while a composite
\* is split or placed never leaves the call, every composite of the catalog
\* is still visited in catalog order, and the call returns its canvas, saved
\* to the output path when one is given.
C4_CompositeErrorsIsolated ==
    InRfc =>
        /\ result.kind # "raised"
        /\ \A i \in 1..Len(log.entries) : log.entries[i][1] = CompositeOrder[i]
        /\ pc = "done" =>
            /\ Len(log.entries) = Len(CompositeOrder)
            /\ result = Returned(template)
            /\ ~template.isNone /\ template.size = size
            /\ call.output_path # NoneVal =>
                 written # <<>> /\ written[Len(written)] = call.output_path

C4_Witness ==
    /\ pc = "done" /\ InRfc
    /\ log.entries[2] = <<"combo_opt_2_5", "error">>
    /\ log.entries[3] = <<"combo_opt_3_8", "done">>
    /\ OnCanvasFrom("combo_opt_3_8") = {"option_3", "option_8"}
    /\ call.output_path # NoneVal
    /\ result = Returned(template)

ErroredComposites ==
    {log.entries[i][1] : i \in {j \in 1..Len(log.entries) : log.entries[j][2] = "error"}}

\* C5 as claimed: a composite whose processing raised has none of its
\* segments on the canvas, and none of its segment ids is counted as placed
\* on its account.
C5_FailedCompositeOmitted ==
    InRfc =>
        \A c \in ErroredComposites :
            /\ OnCanvasFrom(c) = {}
            /\ \A s \in Range(COMPOSITE_DEFS[c].segments) :
                 s \in processed_segments => \E c2 \in CompositeIds \ {c} : s \in OnCanvasFrom(c2)

\* the segment ids a split of composite c yields, in order
SplitKeys(c) ==
    LET v == split_composite(COMPOSITE_DEFS, NoneVal, Path("in", c),
                             CompositeFile("valid", 200, 200), c).res.value
    IN  [i \in 1..Len(v) |-> v[i][1]]

\* C5 as amended: the canvas and the set of placed ids are updated segment by
\* segment and never rolled back.  Every placement reported as successful,
\* those of a composite that failed later included, is on the canvas and
\* counted as placed from then on; of a failed composite the canvas holds the
\* first segments of its split, those from the failing point on are omitted;
\* an id is counted as placed exactly when it is on the canvas.
C5_FailedCompositeKeepsPlaced ==
    InRfc =>
        /\ processed_segments = OnCanvas
        /\ log.placed = [i \in 1..Len(template.layers) |->
                            << LayerComposite(template.layers[i]),
                               template.layers[i].segment_id >>]
        /\ \A c \in ErroredComposites :
             \E k \in 0..Len(SplitKeys(c)) :
                OnCanvasFrom(c) = {SplitKeys(c)[i] : i \in 1..k} \ 
                                  UNION {OnCanvasFrom(c2) : c2 \in CompositeIds \ {c}}

C5_Witness ==
    /\ pc = "done" /\ InRfc
    /\ "combo_flaps" \in ErroredComposites
    /\ OnCanvasFrom("combo_flaps") = {"flap_A", "flap_B"}
    /\ <<"combo_flaps", "flap_B">> \in Range(log.placed)
    /\ {"flap_A", "flap_B"} \subseteq processed_segments
    /\ "flap_C" \notin processed_segments

(***************************************************************************)
(* Properties of extract_segment                                           *)
(***************************************************************************)
GridBox(s) == VertexBox(SEGMENT_DEFS[s].points)

\* the box of the vertices of segment s mapped without its scale and offset
UncorrectedBox(sz, s) ==
    << Trunc(GridBox(s)[1] * sz, 4), Trunc(GridBox(s)[2] * sz, 4),
       Trunc(GridBox(s)[3] * sz, 4), Trunc(GridBox(s)[4] * sz, 4) >>

\* the vertices of segment s mapped with its scale and offset
CorrectedPoints(sz, s) ==
    [i \in 1..Len(SEGMENT_DEFS[s].points) |->
        grid_to_pixel(sz, SEGMENT_DEFS, SEGMENT_DEFS[s].points[i][1],
                      SEGMENT_DEFS[s].points[i][2], s).value]

ExtractSegmentReturned ==
    pc = "done" /\ call.op = "extract_segment" /\ result.kind = "returned"

\* C11 as claimed: extract_segment maps every vertex with the segment's scale
\* and offset, and the image returned is the box of those corrected vertices.
C11_ExtractsCorrectedBox ==
    ExtractSegmentReturned =>
        /\ result.value.src[3] = CorrectedPoints(size, call.segment_id)
        /\ result.value.box = VertexBox(CorrectedPoints(size, call.segment_id))

\* C11 as amended: extract_segment maps every vertex without the segment id,
\* so that no scale and no offset applies to any segment; the image returned
\* is the box of those uncorrected vertices, and for option_1 at size 400 it
\* is the box (100,0)-(200,100).
C11_ExtractsUncorrectedBox ==
    ExtractSegmentReturned =>
        /\ \A i \in 1..Len(result.value.src[3]) :
             result.value.src[3][i] =
                << Trunc(SEGMENT_DEFS[call.segment_id].points[i][1] * size, 4),
                   Trunc(SEGMENT_DEFS[call.segment_id].points[i][2] * size, 4) >>
        /\ result.value.crop = "vertices"
        /\ result.value.box = UncorrectedBox(size, call.segment_id)
        /\ (size = 400 /\ call.segment_id = "option_1")
             => result.value.box = <<100, 0, 200, 100>>

C11_Witness ==
    /\ ExtractSegmentReturned
    /\ size = 400 /\ call.segment_id = "option_1"
    /\ result.value.box = <<100, 0, 200, 100>>
    /\ VertexBox(CorrectedPoints(size, "option_1")) # <<100, 0, 200, 100>>

(***************************************************************************)
(* Round trip: extract_all, then reconstruct at the same size              *)
(***************************************************************************)
RoundTrip == InReconstruct /\ call.input_dir = "out"

\* C12: when reconstruct reads the directory extract_all wrote at the same
\* size, every segment placed on the canvas holds the source content of its
\* own segment region, and the rotation applied to it between extraction and
\* placement is a multiple of 360 degrees.
C12_RoundTripUnrotated ==
    RoundTrip =>
        \A i \in 1..Len(template.layers) :
            /\ template.layers[i].image.src[2] = template.layers[i].segment_id
            /\ template.layers[i].image.rot % 360 = 0

(***************************************************************************)
(* Inverse properties of the composite engine                              *)
(***************************************************************************)
\* split_composite has run on the file generate_all_composites saves for the
\* option pair k, under that pair's composite id
SplitOfGenerated(k) ==
    /\ pc = "done" /\ call.op = "split_composite"
    /\ call.composite_id = ConfigId(k)
    /\ call.file = GeneratedOptionFile(size, k)

\* C13: for each option pair of generate_all_composites with its rotation
\* pair, the two rotated triangles fill opposite corners of one square; after
\* the rotation by the composite's split_rotation their seam is horizontal,
\* the first segment lies in the top half and the second in the bottom half;
\* split_composite returns exactly two entries, the first segment id with the
\* top half and the second with the bottom half.
C13_DiagonalSplitInvertsCreate ==
    \A k \in 1..Len(option_configs) :
        SplitOfGenerated(k) =>
            LET composite == call.file.content
                def == COMPOSITE_DEFS[ConfigId(k)]
            IN  /\ composite.right_top.src[2] = OptionId(option_configs[k][1])
                /\ composite.left_bottom.src[2] = OptionId(option_configs[k][2])
                /\ def.segments = <<OptionId(option_configs[k][1]),
                                    OptionId(option_configs[k][2])>>
                /\ RotatedSeam(composite, def.split_rotation) = 0
                /\ HalfOf(composite, composite.right_top, def.split_rotation) = "top"
                /\ HalfOf(composite, composite.left_bottom, def.split_rotation) = "bottom"
                /\ result.kind = "returned"
                /\ Len(result.value) = 2
                /\ result.value[1][1] = def.segments[1]
                /\ result.value[1][2].src[2] = "top"
                /\ result.value[2][1] = def.segments[2]
                /\ result.value[2][2].src[2] = "bottom"

C13_Witness ==
    /\ SplitOfGenerated(4)
    /\ ShapeCorner(call.file.content.right_top) = "top_left"
    /\ ShapeCorner(call.file.content.left_bottom) = "bottom_right"
    /\ result.kind = "returned"
    /\ result.value[1][1] = "option_4" /\ result.value[2][1] = "option_7"

SplitOfGrid ==
    /\ pc = "done" /\ call.op = "split_composite"
    /\ call.composite_id = "combo_flaps"
    /\ call.file.content.src = "grid"

\* the cell of a canvas of w x h pixels that flap number i belongs in: A
\* top-left, B top-right, C bottom-right, D bottom-left
OwnCell(i, w, h) ==
    CASE i = 1 -> <<0, 0, w \div 2, h \div 2>>
      [] i = 2 -> <<w \div 2, 0, w, h \div 2>>
      [] i = 3 -> <<w \div 2, h \div 2, w, h>>
      [] i = 4 -> <<0, h \div 2, w \div 2, h>>

\* pixel (x, y) lies in the crop box b = (left, top, right, bottom)
InBox(x, y, b) == b[1] <= x /\ x < b[3] /\ b[2] <= y /\ y < b[4]

\* C14: for flap images of all widths and heights, create_grid_composite
\* makes a canvas of 2 x max-width by 2 x max-height and puts every flap
\* inside its own cell; the four crop boxes split_composite computes from the
\* combo_flaps regions are those four cells, each under the id of the flap
\* placed in it, and every pixel of the composite lies in exactly one box.
C14_GridSplitInvertsCreate ==
    SplitOfGrid =>
        LET grid == call.file.content
            w == grid.size[1]
            h == grid.size[2]
        IN  /\ w = 2 * Max({grid.cells[i].dims[1] : i \in 1..4})
            /\ h = 2 * Max({grid.cells[i].dims[2] : i \in 1..4})
            /\ \A i \in 1..4 :
                 /\ grid.cells[i].flap_id = FlapOrder[i]
                 /\ grid.cells[i].at = <<OwnCell(i, w, h)[1], OwnCell(i, w, h)[2]>>
                 /\ grid.cells[i].at[1] + grid.cells[i].dims[1] <= OwnCell(i, w, h)[3]
                 /\ grid.cells[i].at[2] + grid.cells[i].dims[2] <= OwnCell(i, w, h)[4]
            /\ result.kind = "returned"
            /\ Len(result.value) = 4
            /\ \A i \in 1..4 :
                 /\ result.value[i][1] = FlapOrder[i]
                 /\ result.value[i][2].box = OwnCell(i, w, h)
            /\ \A x \in 0..(w - 1), y \in 0..(h - 1) :
                 Cardinality({i \in 1..4 : InBox(x, y, result.value[i][2].box)}) = 1

C14_Witness ==
    /\ SplitOfGrid
    /\ call.file.content.size = <<4, 2>>
    /\ call.file.content.cells[1].dims = <<1, 1>>
    /\ call.file.content.cells[3].dims = <<2, 1>>
    /\ result.kind = "returned"
    /\ result.value[3] [2].box = <<2, 1, 4, 2>>

(***************************************************************************)
(* Properties of place_segment                                             *)
(***************************************************************************)
PlaceSegmentDone == pc = "done" /\ call.op = "place_segment"

\* C15: place_segment leaves the canvas it was given as it was, whether it
\* returns or raises; what it returns is a new canvas object with the
\* dimensions of the given canvas (size x size when none was given).
C15_PlaceSegmentCopies ==
    PlaceSegmentDone =>
        /\ template = call.template
        /\ result.kind = "returned" =>
             /\ result.object = "copy"
             /\ ~result.value.isNone
             /\ result.value.size = (IF call.template.isNone THEN size
                                     ELSE call.template.size)

C15_Witness ==
    /\ PlaceSegmentDone
    /\ result.kind = "returned"
    /\ ~call.template.isNone
    /\ Len(call.template.layers) = 1
    /\ Len(result.value.layers) = 2
    /\ call.template.size = size

(***************************************************************************)
(* Properties of extract_all                                               *)
(***************************************************************************)
ExtractAllDone == pc = "done" /\ call.op = "extract_all" /\ image = "loaded"

\* C17: extract_all on a processor with a source image leaves exactly the 13
\* files <id>.png of the cataloged segment ids in the directory and nothing
\* else; big_diamond.png is saved twice, first as the vertex-box crop of the
\* loop and last as the content-cropped result of extract_big_diamond, which
\* is the file that stays.
C17_ExtractAllFiles ==
    ExtractAllDone =>
        LET saves == extract_all_files(size, image, call.output_dir)
            left == FilesLeft(saves, 1, <<>>)
            diamond == Path(call.output_dir, "big_diamond")
        IN  /\ result = Returned(NoneVal)
            /\ written = << <<call.output_dir>> >> \o [i \in 1..Len(saves) |-> saves[i][1]]
            /\ Len(left) = 13
            /\ {left[i][1] : i \in 1..Len(left)}
                 = {Path(call.output_dir, s) : s \in SegmentIds}
            /\ \A i \in 1..Len(left) :
                 left[i][1] = diamond =>
                     /\ left[i][2] = extract_big_diamond(size, image, NoneVal).res.value
                     /\ left[i][2].crop = "content"
            /\ \E i \in 1..(Len(saves) - 1) :
                 saves[i][1] = diamond /\ saves[i][2].crop = "vertices"

C17_Witness ==
    /\ ExtractAllDone
    /\ Len(written) = 15
    /\ written[14] = Path("out", "big_diamond")
    /\ written[15] = Path("out", "big_diamond")

(***************************************************************************)
(* Properties of generate_all_composites                                   *)
(***************************************************************************)
GenerateDone == pc = "done" /\ call.op = "generate_all_composites"

CreatedSteps == {k \in 1..Len(log.entries) : log.entries[k].error.kind = "returned"}

\* C18: every run of generate_all_composites attempts all six composites in
\* order and returns without raising; a composite fails exactly when its own
\* build or its own save fails, and every other composite is written.
C18_GenerateAttemptsAll ==
    GenerateDone =>
        /\ result = Returned(NoneVal)
        /\ Len(log.entries) = 6
        /\ \A k \in 1..6 :
             /\ log.entries[k].composite_id = CompositeOrder[k]
             /\ (k \in CreatedSteps) <=> (image = "loaded" /\ k \notin call.save_faults)
        /\ Range(written) = { <<call.output_dir>> }
                            \cup {Path(call.output_dir, CompositeOrder[k]) : k \in CreatedSteps}
        /\ Len(written) = 1 + Cardinality(CreatedSteps)

C18_Witness ==
    /\ GenerateDone
    /\ image = "loaded"
    /\ call.save_faults = {1, 5}
    /\ written = << <<"out">>, Path("out", "combo_opt_2_5"), Path("out", "combo_opt_3_8"),
                    Path("out", "combo_opt_4_7"), Path("out", "combo_diamond") >>
    /\ log.entries[1].error = SaveError

(***************************************************************************)
(* Properties of split_all_composites                                      *)
(***************************************************************************)
SplitAllDone == pc = "done" /\ call.op = "split_all_composites"

PresentComposites == {k \in 1..Len(CompositeOrder) : call.files[k].status # "absent"}

\* the files of the output directory among the paths written
OutputFiles == {p \in Range(written) : Len(p) = 2 /\ p[1] = call.output_dir}

\* C19: split_all_composites over any subset of present (decodable)
\* composite files returns without raising, skips every missing file, and
\* writes <segment id>.png for exactly the segment ids of the composites
\* that are present.
C19_SplitAllWritesPresent ==
    (SplitAllDone /\ \A k \in 1..Len(CompositeOrder) : call.files[k].status # "corrupt") =>
        /\ result = Returned(NoneVal)
        /\ Range(log.skipped)
             = {CompositeOrder[k] : k \in (1..Len(CompositeOrder)) \ PresentComposites}
        /\ OutputFiles
             = {Path(call.output_dir, s) :
                  s \in UNION {Range(COMPOSITE_DEFS[CompositeOrder[k]].segments) :
                                 k \in PresentComposites}}

C19_Witness ==
    /\ SplitAllDone
    /\ PresentComposites = {2, 5}
    /\ call.files[2].status = "valid"
    /\ call.files[5].status = "valid"
    /\ result = Returned(NoneVal)
    /\ OutputFiles = {Path("out", s) :
                        s \in {"option_2", "option_5", "flap_A", "flap_B", "flap_C", "flap_D"}}
    /\ Len(log.skipped) = 4

(***************************************************************************)
(* reconstruct_from_composites against place_segment                       *)
(***************************************************************************)
\* the layer place_segment composites for segment_id onto a canvas
PlacedBy_place_segment(segment_id, segment) ==
    LET canvas == place_segment(size, NoneCanvas, segment, segment_id).value
    IN  canvas.layers[Len(canvas.layers)]

\* C20: every segment reconstruct_from_composites composites went through
\* the steps of place_segment in the order of place_segment (rotate, then
\* resize to the expected size) and sits at the pixel place_segment puts it.
C20_RfcPlacesAsPlaceSegment ==
    InRfc =>
        \A i \in 1..Len(template.layers) :
            LET layer == template.layers[i]
                would == PlacedBy_place_segment(layer.segment_id, layer.image)
            IN  /\ layer.at = would.at
                /\ layer.resized_to = would.resized_to
                /\ layer.steps = would.steps

(***************************************************************************)
(* What construction fixes                                                 *)
(***************************************************************************)
\* C16: no step of any operation changes whether the processor holds a
\* source image (and so the image), its size (the grid unit is size / 4),
\* the segment catalog or the composite catalog.
C16_ConstructionFixed ==
    [][ /\ image' = image
        /\ size' = size
        /\ segment_defs' = segment_defs
        /\ COMPOSITE_DEFS' = COMPOSITE_DEFS ]_vars

C16_Witness ==
    /\ pc = "done"
    /\ call.op = "reconstruct_from_composites"
    /\ debug_dir # NoneVal
    /\ image = "loaded"
    /\ size = AppSize
    /\ segment_defs = SEGMENT_DEFS
    /\ COMPOSITE_DEFS = CATALOG_COMPOSITE_DEFS
    /\ Len(template.layers) > 0

(***************************************************************************)
(* Pixel operations: clean_edges                                           *)
(***************************************************************************)
\* alpha runs over 0..MaxAlpha (the model's 255); thresholds over 0..MaxAlpha + 1
MaxAlpha == 3
AlphaLevels == 0..MaxAlpha
Thresholds == 0..(MaxAlpha + 1)
Black == <<0, 0, 0>>
Colours == {Black, <<7, 0, 9>>}
\* a pixel of np.array(image): its colour and its alpha
Pixels == [a : AlphaLevels, rgb : Colours]
\* the pixels of an image, row after row
PixelImages == [1..2 -> Pixels]

\* rgba[semi_transparent, 3] = 0 where (alpha > 0) & (alpha < threshold)
ClearSemiTransparent(px, threshold) ==
    IF px.a > 0 /\ px.a < threshold THEN [px EXCEPT !.a = 0] ELSE px

\* variant: alpha is a copy of the channel taken before the assignment
clean_edges_AlphaCopied(img, threshold) ==
    [i \in DOMAIN img |->
        IF img[i].a = 0
        THEN [ClearSemiTransparent(img[i], threshold) EXCEPT !.rgb = Black]
        ELSE ClearSemiTransparent(img[i], threshold)]

\* alpha = rgba[:, :, 3] is a view of rgba: transparent = (alpha == 0) is
\* computed after the assignment and sees the pixels it cleared
clean_edges(img, threshold) ==
    [i \in DOMAIN img |->
        IF ClearSemiTransparent(img[i], threshold).a = 0
        THEN [ClearSemiTransparent(img[i], threshold) EXCEPT !.rgb = Black]
        ELSE ClearSemiTransparent(img[i], threshold)]

CleanEdges ==
    /\ Idle
    /\ \E img \in PixelImages, threshold \in Thresholds :
        Complete([img |-> img, op |-> "clean_edges", threshold |-> threshold],
                 Outcome(Returned(clean_edges(img, threshold)), <<>>))

CleanEdgesDone == pc = "done" /\ call.op = "clean_edges"

\* C21 as stated: alpha strictly between 0 and the threshold becomes 0, alpha
\* 0 stays 0, every pixel with alpha >= threshold keeps its alpha and its
\* colour, every pixel of the output with alpha 0 is black, and a second
\* clean_edges changes nothing.
C21_CleanEdgesKeepsFromThreshold ==
    CleanEdgesDone =>
        /\ \A i \in DOMAIN call.img :
             LET before == call.img[i]
                 after == result.value[i]
             IN  /\ (before.a > 0 /\ before.a < call.threshold) => after.a = 0
                 /\ before.a = 0 => after.a = 0
                 /\ before.a >= call.threshold => after = before
                 /\ after.a = 0 => after.rgb = Black
        /\ clean_edges(result.value, call.threshold) = result.value

\* C21: the same, where the pixels that keep alpha and colour are those with
\* alpha >= threshold and alpha > 0: a pixel of alpha 0 is made black even
\* when the threshold is 0.
C21_CleanEdgesKeepsOpaque ==
    CleanEdgesDone =>
        /\ \A i \in DOMAIN call.img :
             LET before == call.img[i]
                 after == result.value[i]
             IN  /\ (before.a > 0 /\ before.a < call.threshold) => after.a = 0
                 /\ before.a = 0 => after.a = 0
                 /\ (before.a >= call.threshold /\ before.a > 0) => after = before
                 /\ after.a = 0 => after.rgb = Black
        /\ clean_edges(result.value, call.threshold) = result.value

C21_Witness ==
    /\ CleanEdgesDone
    /\ call.threshold = 2
    /\ call.img[1] = [a |-> 1, rgb |-> <<7, 0, 9>>]
    /\ call.img[2] = [a |-> 2, rgb |-> <<7, 0, 9>>]
    /\ result.value[1] = [a |-> 0, rgb |-> Black]
    /\ result.value[2] = call.img[2]

(***************************************************************************)
(* Pixel operations: crop_to_content                                       *)
(***************************************************************************)
\* images of up to MaxSide x MaxSide pixels, padding up to MaxPadding
MaxSide == 3
MaxPadding == 1
\* the alpha channel of an image of h rows and w columns, indexed (y, x) from 0
AlphaArrays ==
    UNION { [w : {ww}, h : {hh}, alpha : [(0..(hh - 1)) \X (0..(ww - 1)) -> {0, 1}]] :
            hh \in 1..MaxSide, ww \in 1..MaxSide }

\* np.nonzero(alpha): the (y, x) of the pixels with nonzero alpha
NonZero(img) == {p \in DOMAIN img.alpha : img.alpha[p] # 0}

\* image.crop((left, top, right, bottom))
CropArray(img, box) ==
    [w |-> box[3] - box[1], h |-> box[4] - box[2],
     alpha |-> [p \in (0..(box[4] - box[2] - 1)) \X (0..(box[3] - box[1] - 1)) |->
                  img.alpha[<<p[1] + box[2], p[2] + box[1]>>]]]

\* variant: the bounds end at the last content pixel, not one past it
crop_to_content_array_Exclusive(img, padding) ==
    IF NonZero(img) = {} THEN img
    ELSE LET y_nonzero == {p[1] : p \in NonZero(img)}
             x_nonzero == {p[2] : p \in NonZero(img)}
             min_y == Max({0, Min(y_nonzero) - padding})
             max_y == Min({img.h, Max(y_nonzero) + padding})
             min_x == Max({0, Min(x_nonzero) - padding})
             max_x == Min({img.w, Max(x_nonzero) + padding})
         IN  IF min_x >= max_x \/ min_y >= max_y THEN img
             ELSE CropArray(img, <<min_x, min_y, max_x, max_y>>)

\* crop_to_content on the pixel array
crop_to_content_array(img, padding) ==
    IF NonZero(img) = {} THEN img
    ELSE LET y_nonzero == {p[1] : p \in NonZero(img)}
             x_nonzero == {p[2] : p \in NonZero(img)}
             min_y == Max({0, Min(y_nonzero) - padding})
             max_y == Min({img.h, Max(y_nonzero) + 1 + padding})
             min_x == Max({0, Min(x_nonzero) - padding})
             max_x == Min({img.w, Max(x_nonzero) + 1 + padding})
         IN  IF min_x >= max_x \/ min_y >= max_y THEN img
             ELSE CropArray(img, <<min_x, min_y, max_x, max_y>>)

CropToContent ==
    /\ Idle
    /\ \E img \in AlphaArrays, padding \in 0..MaxPadding :
        Complete([img |-> img, op |-> "crop_to_content", padding |-> padding],
                 Outcome(Returned(crop_to_content_array(img, padding)), <<>>))

CropToContentDone == pc = "done" /\ call.op = "crop_to_content"

\* the bounding box (left, top, right, bottom) of the nonzero-alpha pixels
\* grown by padding on each side and cut at the image bounds
PaddedContentBox(img, padding) ==
    LET ys == {p[1] : p \in NonZero(img)}
        xs == {p[2] : p \in NonZero(img)}
        clamp(v, hi) == IF v < 0 THEN 0 ELSE IF v > hi THEN hi ELSE v
    IN  << clamp(Min(xs) - padding, img.w), clamp(Min(ys) - padding, img.h),
           clamp(Max(xs) + 1 + padding, img.w), clamp(Max(ys) + 1 + padding, img.h) >>

\* C22: crop_to_content returns a fully transparent image as it is; of any
\* other image it returns the crop to the padded, clamped bounding box of the
\* nonzero-alpha pixels, which holds every nonzero-alpha pixel of the input;
\* with padding 0 each border row and column of the result holds a
\* nonzero-alpha pixel and crop_to_content of the result is the result.
C22_CropToContentBox ==
    CropToContentDone =>
        LET img == call.img
            out == result.value
        IN  /\ NonZero(img) = {} => out = img
            /\ NonZero(img) # {} =>
                 LET box == PaddedContentBox(img, call.padding)
                 IN  /\ out = CropArray(img, box)
                     /\ \A p \in NonZero(img) :
                          /\ box[2] <= p[1] /\ p[1] < box[4]
                          /\ box[1] <= p[2] /\ p[2] < box[3]
                          /\ out.alpha[<<p[1] - box[2], p[2] - box[1]>>] = img.alpha[p]
                     /\ call.padding = 0 =>
                          /\ \A y \in {0, out.h - 1} : \E p \in NonZero(out) : p[1] = y
                          /\ \A x \in {0, out.w - 1} : \E p \in NonZero(out) : p[2] = x
                          /\ crop_to_content_array(out, 0) = out

C22_Witness ==
    /\ CropToContentDone
    /\ call.padding = 0
    /\ call.img.h = 3 /\ call.img.w = 3
    /\ NonZero(call.img) = {<<1, 1>>, <<1, 2>>}
    /\ result.value.h = 1 /\ result.value.w = 2
    /\ NonZero(result.value) = {<<0, 0>>, <<0, 1>>}

InitPixels ==
    /\ Construct({DefaultSize}, {CATALOG_COMPOSITE_DEFS})
    /\ image = "loaded"
NextPixels == CleanEdges \/ CropToContent \/ Return
SpecPixels == InitPixels /\ [][NextPixels]_vars

(***************************************************************************)
(* The composite catalog as a partition of the segment catalog             *)
(***************************************************************************)
\* a finished reconstruct_from_composites that found all six files and in
\* which nothing raised
RfcAllSplit ==
    /\ InRfc /\ pc = "done"
    /\ Len(log.entries) = Len(CompositeOrder)
    /\ \A i \in 1..Len(log.entries) : log.entries[i][2] = "done"

\* C23: with the catalog as shipped every segment id belongs to exactly one
\* composite definition, every id a split returns is one of the segment ids
\* of the composite that was split, and a run of reconstruct_from_composites
\* with all six files present and no failure puts every segment id on the
\* canvas exactly once, skips nothing and reports no missing segment.
C23_CompositesPartitionSegments ==
    COMPOSITE_DEFS = CATALOG_COMPOSITE_DEFS =>
        /\ \A s \in SegmentIds :
             Cardinality({c \in CompositeIds : s \in Range(COMPOSITE_DEFS[c].segments)}) = 1
        /\ \A c \in CompositeIds : Range(COMPOSITE_DEFS[c].segments) \subseteq SegmentIds
        /\ (InRfc /\ pc = "rfc_place") =>
             \A k \in 1..Len(segments) :
                 segments[k][1] \in Range(COMPOSITE_DEFS[CompositeOrder[idx]].segments)
        /\ RfcAllSplit =>
             /\ \A s \in SegmentIds : Cardinality(LayersOf(s)) = 1
             /\ Len(template.layers) = Cardinality(SegmentIds)
             /\ processed_segments = SegmentIds
             /\ log.skipped = <<>>
             /\ log.reports = <<>>

C23_Witness ==
    /\ RfcAllSplit
    /\ COMPOSITE_DEFS = CATALOG_COMPOSITE_DEFS
    /\ Len(template.layers) = 13
    /\ OnCanvasFrom("combo_opt_4_7") = {"option_4", "option_7"}
    /\ OnCanvasFrom("combo_diamond") = {"big_diamond"}
    /\ log.skipped = <<>>

(***************************************************************************)
(* Rotations along the composite path                                      *)
(***************************************************************************)
\* option_1 .. option_8
OptionIds == {OptionId(n) : n \in 1..8}

\* the configuration of generate_all_composites that holds option segment s
ConfigOf(s) ==
    CHOOSE k \in 1..Len(option_configs) :
        s \in {OptionId(option_configs[k][1]), OptionId(option_configs[k][2])}

\* the rotation generate_all_composites passes to create_composite for s
GenerateRotation(s) ==
    IF s = OptionId(option_configs[ConfigOf(s)][1])
    THEN option_configs[ConfigOf(s)][3]
    ELSE option_configs[ConfigOf(s)][4]

\* for each processor size, configuration k and split rotation of a catalog:
\* the two segment images of the composite generate_all_composites saves, as
\* (segment id, rotation given by create_composite, half the split finds it in)
GeneratedParts ==
    { <<sz, k, defs[ConfigId(k)].split_rotation,
        UNION { { <<part.src[2], part.rot,
                    HalfOf(composite, part, defs[ConfigId(k)].split_rotation)>> :
                  part \in {composite.right_top, composite.left_bottom} } :
                composite \in {GeneratedOptionFile(sz, k).content} }>> :
      sz \in {DefaultSize, AppSize}, k \in 1..Len(option_configs), defs \in AllCatalogs }

\* the segment images of the generated composite that lie in the half a
\* placed layer's image was cut from
SourceOfLayer(layer) ==
    LET k == ConfigOf(layer.segment_id)
        angle == COMPOSITE_DEFS[ConfigId(k)].split_rotation
    IN  UNION { {part \in g[4] : part[3] = layer.image.src[2]} :
                g \in {h \in GeneratedParts :
                          h[1] = size /\ h[2] = k /\ h[3] = angle} }

OptionLayers ==
    IF InRfc /\ ~template.isNone
    THEN {i \in 1..Len(template.layers) :
            /\ template.layers[i].segment_id \in OptionIds
            /\ LayerComposite(template.layers[i]) \in DiagonalIds}
    ELSE {}

\* C24: for each of option_1..8 the rotation generate_all_composites gives
\* it, the rotation by split_rotation and back by -split_rotation of the
\* diagonal split, and the segment's default rotation add up to a multiple
\* of 360; every option layer reconstruct_from_composites placed from a
\* diagonal composite is the image of its own segment turned, from the
\* source image, by a multiple of 360 in all.
C24_OptionsEndUpright ==
    /\ \A s \in OptionIds :
         LET angle == COMPOSITE_DEFS[ConfigId(ConfigOf(s))].split_rotation
         IN  (GenerateRotation(s) + angle + (0 - angle)
                + SEGMENT_DEFS[s].default_rotation) % 360 = 0
    /\ \A i \in OptionLayers :
         LET layer == template.layers[i]
         IN  /\ Cardinality(SourceOfLayer(layer)) = 1
             /\ \A part \in SourceOfLayer(layer) :
                  /\ part[1] = layer.segment_id
                  /\ part[2] = GenerateRotation(layer.segment_id)
                  /\ (part[2] + layer.image.rot) % 360 = 0

C24_Witness ==
    /\ InRfc /\ pc = "done"
    /\ \E i, j \in OptionLayers :
         /\ template.layers[i].segment_id = "option_4"
         /\ template.layers[i].image.rot = 0 - 180
         /\ template.layers[j].segment_id = "option_7"
         /\ template.layers[j].image.rot = 0 - 90
    /\ \E i \in OptionLayers :
         /\ template.layers[i].segment_id = "option_1"
         /\ template.layers[i].image.rot = 90

====
